---- MODULE Spec2Model ----
(***************************************************************************)
(* Model of the Elfsight -> Housecall Pro lead webhook:                    *)
(*   utils.py            normalize_phone, parse_name, sanitize_string,     *)
(*                       parse_address, compare_addresses                  *)
(*   customer_matcher.py CustomerMatcher.find_matching_customer and its    *)
(*                       helpers                                           *)
(*   hcp_client.py       HCPClient._request and the client methods         *)
(*   lead_creator.py     LeadCreator.create_lead                           *)
(*                                                                         *)
(* Python strings are sequences of one-character strings, so that the      *)
(* string functions are computed character by character.  Python floats    *)
(* are fixed-point integers in units of 1/One; One is divisible by every   *)
(* denominator the strings of the model can produce, so every score is     *)
(* the exact rational value of the Python expression, except where the     *)
(* double arithmetic of the source is not exact: compare_addresses         *)
(* divides by the double 0.4 + 0.3 + 0.2 + 0.1 = 0.9999999999999999, and   *)
(* its quotient lies QuotientExcess above the exact value.                 *)
(*                                                                         *)
(* One submission is the record sub[s] of create_lead's locals; each call  *)
(* of the directory is one action per HTTP attempt of _request, followed   *)
(* by everything create_lead does until its next call.  The log            *)
(* sub[s].calls keeps, per returned call, what was posted and returned.    *)
(*                                                                         *)
(* Left out: the parts of the payloads that neither decide a branch nor    *)
(* carry an id (sms_consent / notifications_enabled, service_details and   *)
(* line items, the note text, job type, tags, lead_source, the assigned    *)
(* employee), the sleeps of _request, and logging.                         *)
(***************************************************************************)
EXTENDS Integers, Sequences, FiniteSets, TLC

\* ------------------------------------------------------------------ values

\* Python None for an Optional[str]: a sequence that is no string of the model.
None == <<"<None>">>

\* Python None for an optional id or record.
NoId == "None"

\* The fixed-point unit: the float 1.0.
One == 2520 * 10 * 100

\* bool(s) for an Optional[str].
Truthy(s) == s # None /\ s # <<>>

\* (s or "")
OrEmpty(s) == IF Truthy(s) THEN s ELSE <<>>

Max(a, b) == IF a >= b THEN a ELSE b

RECURSIVE SumSeq(_)
SumSeq(q) == IF q = <<>> THEN 0 ELSE Head(q) + SumSeq(Tail(q))

\* ----------------------------------------------------------------- strings

Digits == {"0", "1", "2", "3", "4", "5", "6", "7", "8", "9"}

UpperCase == <<"A", "B", "C", "D", "E", "F", "G", "H", "I", "J", "K", "L", "M",
               "N", "O", "P", "Q", "R", "S", "T", "U", "V", "W", "X", "Y", "Z">>

LowerCase == <<"a", "b", "c", "d", "e", "f", "g", "h", "i", "j", "k", "l", "m",
               "n", "o", "p", "q", "r", "s", "t", "u", "v", "w", "x", "y", "z">>

IsUpper(c) == \E i \in 1..Len(UpperCase) : UpperCase[i] = c

\* str.lower(), one character
LowerChar(c) ==
    IF IsUpper(c) THEN LowerCase[CHOOSE i \in 1..Len(UpperCase) : UpperCase[i] = c] ELSE c

RECURSIVE Lower(_)
Lower(s) == IF s = <<>> THEN <<>> ELSE <<LowerChar(Head(s))>> \o Lower(Tail(s))

\* str.split(): the maximal runs of non-whitespace characters.
RECURSIVE SplitAcc(_, _, _)
SplitAcc(s, cur, acc) ==
    IF s = <<>>
    THEN IF cur = <<>> THEN acc ELSE Append(acc, cur)
    ELSE IF Head(s) = " "
         THEN SplitAcc(Tail(s), <<>>, IF cur = <<>> THEN acc ELSE Append(acc, cur))
         ELSE SplitAcc(Tail(s), Append(cur, Head(s)), acc)

Split(s) == SplitAcc(s, <<>>, <<>>)

\* " ".join(words)
RECURSIVE Join(_)
Join(words) ==
    IF words = <<>> THEN <<>>
    ELSE IF Len(words) = 1 THEN words[1]
    ELSE words[1] \o <<" ">> \o Join(Tail(words))

\* str.strip()
RECURSIVE LStrip(_)
LStrip(s) == IF s # <<>> /\ Head(s) = " " THEN LStrip(Tail(s)) ELSE s

RECURSIVE RStrip(_)
RStrip(s) ==
    IF s # <<>> /\ s[Len(s)] = " " THEN RStrip(SubSeq(s, 1, Len(s) - 1)) ELSE s

Strip(s) == RStrip(LStrip(s))

\* re.sub(r'\D', '', s)
RECURSIVE OnlyDigits(_)
OnlyDigits(s) ==
    IF s = <<>> THEN <<>>
    ELSE IF Head(s) \in Digits THEN <<Head(s)>> \o OnlyDigits(Tail(s))
    ELSE OnlyDigits(Tail(s))

\* utils.sanitize_string
sanitize_string(s) == IF ~Truthy(s) THEN <<>> ELSE Strip(Join(Split(s)))

\* Config.DEFAULT_AREA_CODE
DEFAULT_AREA_CODE == <<"4", "1", "5">>

\* Config.DEFAULT_STATE
DEFAULT_STATE == <<"C", "A">>

\* A faulty normalize_phone: eleven digits are taken for a number with its
\* country code whatever the first digit is.
NormalizeAnyEleven(phone, default_area_code) ==
    IF ~Truthy(phone) THEN None
    ELSE LET digits == OnlyDigits(phone)
             n == Len(digits)
         IN  IF n = 10 THEN <<"+", "1">> \o digits
             ELSE IF n = 11 THEN <<"+">> \o digits
             ELSE IF n = 7 THEN <<"+", "1">> \o default_area_code \o digits
             ELSE IF n > 11 THEN <<"+", "1">> \o SubSeq(digits, n - 9, n)
             ELSE None

\* utils.normalize_phone
normalize_phone(phone, default_area_code) ==
    IF ~Truthy(phone) THEN None
    ELSE LET digits == OnlyDigits(phone)
             n == Len(digits)
         IN  IF n = 10 THEN <<"+", "1">> \o digits
             ELSE IF n = 11 /\ digits[1] = "1" THEN <<"+">> \o digits
             ELSE IF n = 7 THEN <<"+", "1">> \o default_area_code \o digits
             ELSE IF n > 11 THEN <<"+", "1">> \o SubSeq(digits, n - 9, n)
             ELSE None

\* utils.parse_name: <<first_name, last_name>>
parse_name(full_name) ==
    IF ~Truthy(full_name) THEN <<<<>>, <<>>>>
    ELSE LET parts == Split(Strip(full_name))
             n == Len(parts)
         IN  IF n = 0 THEN <<<<>>, <<>>>>
             ELSE IF n = 1 THEN <<parts[1], <<>>>>
             ELSE IF n = 2 THEN <<parts[1], parts[2]>>
             ELSE <<Join(SubSeq(parts, 1, n - 1)), parts[n]>>

\* ------------------------------------------------------ utils.parse_address

IsDigit(c) == c \in Digits
IsSpace(c) == c = " "
IsLower(c) == \E i \in 1..Len(LowerCase) : LowerCase[i] = c

\* \w of the regular expressions
IsWord(c) == IsDigit(c) \/ IsUpper(c) \/ IsLower(c) \/ c = "_"

AllIn(s, lo, hi, P(_)) == \A i \in lo..hi : P(s[i])

\* str.split(','): the pieces between the commas, empty ones included.
RECURSIVE SplitCommaAcc(_, _, _)
SplitCommaAcc(s, cur, acc) ==
    IF s = <<>> THEN Append(acc, cur)
    ELSE IF Head(s) = "," THEN SplitCommaAcc(Tail(s), <<>>, Append(acc, cur))
    ELSE SplitCommaAcc(Tail(s), Append(cur, Head(s)), acc)

SplitComma(s) == SplitCommaAcc(s, <<>>, <<>>)

NoAddress == [street |-> None, city |-> None, state |-> None, zip |-> None]

\* The tail `([A-Z]{2})\s+(\d{5})$` shared by pattern1 and pattern2: the
\* position of the state, 0 when the string does not end that way.  (The
\* addresses of the model carry five-digit ZIP codes, never ZIP+4.)
StateZipTail(s) ==
    LET n == Len(s)
        z == n - 4
    IN  IF n < 8 \/ ~AllIn(s, z, n, IsDigit) THEN 0
        ELSE LET spaces == {w \in 3..(z - 1) : AllIn(s, w, z - 1, IsSpace)}
             IN  IF spaces = {} THEN 0
                 ELSE LET w == CHOOSE x \in spaces : \A y \in spaces : x <= y
                      IN  IF IsUpper(s[w - 2]) /\ IsUpper(s[w - 1]) THEN w - 2 ELSE 0

\* pattern1 = ^(.+?),\s*(.+?),\s*([A-Z]{2})\s+(\d{5}(?:-\d{4})?)$
\* <<>> when it does not match, else <<address>>.
Pattern1(s) ==
    LET st == StateZipTail(s)
        n == Len(s)
    IN  IF st = 0 THEN <<>>
        ELSE LET seconds == {j \in 1..(st - 1) : s[j] = "," /\ AllIn(s, j + 1, st - 1, IsSpace)}
             IN  IF seconds = {} THEN <<>>
                 ELSE LET j == CHOOSE x \in seconds : TRUE
                          firsts == {i \in 2..(j - 2) : s[i] = ","}
                      IN  IF firsts = {} THEN <<>>
                          ELSE LET i == CHOOSE x \in firsts : \A y \in firsts : x <= y
                               IN  <<[street |-> Strip(SubSeq(s, 1, i - 1)),
                                      city |-> Strip(SubSeq(s, i + 1, j - 1)),
                                      state |-> SubSeq(s, st, st + 1),
                                      zip |-> SubSeq(s, n - 4, n)]>>

\* pattern2 = ^(.+?),\s*(.+?)\s+([A-Z]{2})\s+(\d{5}(?:-\d{4})?)$
Pattern2(s) ==
    LET st == StateZipTail(s)
        n == Len(s)
    IN  IF st = 0 \/ st < 5 THEN <<>>
        ELSE IF ~IsSpace(s[st - 1]) THEN <<>>
        ELSE LET firsts == {i \in 2..(st - 3) : s[i] = ","}
             IN  IF firsts = {} THEN <<>>
                 ELSE LET i == CHOOSE x \in firsts : \A y \in firsts : x <= y
                      IN  <<[street |-> Strip(SubSeq(s, 1, i - 1)),
                             city |-> Strip(SubSeq(s, i + 1, st - 1)),
                             state |-> SubSeq(s, st, st + 1),
                             zip |-> SubSeq(s, n - 4, n)]>>

\* Pattern 3: re.search(r'\b(\d{5}(?:-\d{4})?)\b'), then the state before
\* it, then the commas before the state.
Pattern3(s) ==
    LET n == Len(s)
        zips == {z \in 1..(n - 4) :
                    /\ AllIn(s, z, z + 4, IsDigit)
                    /\ (z = 1 \/ ~IsWord(s[z - 1]))
                    /\ (z + 4 = n \/ ~IsWord(s[z + 5]))}
    IN  IF zips = {} THEN <<>>
        ELSE LET z == CHOOSE x \in zips : \A y \in zips : x <= y
                 before_zip == Strip(SubSeq(s, 1, z - 1))
                 m == Len(before_zip)
                 zip == SubSeq(s, z, z + 4)
             IN  IF /\ m >= 2
                    /\ IsUpper(before_zip[m - 1]) /\ IsUpper(before_zip[m])
                    /\ (m = 2 \/ ~IsWord(before_zip[m - 2]))
                 THEN LET before_state == Strip(SubSeq(before_zip, 1, m - 2))
                          parts == SplitComma(before_state)
                      IN  <<[street |-> Strip(parts[1]),
                             city |-> IF Len(parts) >= 2 THEN Strip(parts[2]) ELSE None,
                             state |-> SubSeq(before_zip, m - 1, m),
                             zip |-> zip]>>
                 ELSE <<[NoAddress EXCEPT !.zip = zip]>>

\* utils.parse_address
parse_address(address_string) ==
    IF ~Truthy(address_string) THEN NoAddress
    ELSE LET s == Strip(address_string)
         IN  IF Pattern1(s) # <<>> THEN Pattern1(s)[1]
             ELSE IF Pattern2(s) # <<>> THEN Pattern2(s)[1]
             ELSE IF Pattern3(s) # <<>> THEN Pattern3(s)[1]
             ELSE [NoAddress EXCEPT !.street = s]

\* ------------------------------------------- difflib.SequenceMatcher.ratio

\* a[i .. i+k-1] = b[j .. j+k-1]
BlockAt(a, b, i, j, k) == \A d \in 0..(k - 1) : a[i + d] = b[j + d]

\* SequenceMatcher.find_longest_match(alo, ahi, blo, bhi) on the 1-based,
\* inclusive windows a[alo..ahi], b[blo..bhi]: the longest common block, of
\* those the one starting earliest in a, of those the one starting earliest
\* in b.  <<i, j, k>>, k = 0 when no character is shared.
find_longest_match(a, b, alo, ahi, blo, bhi) ==
    LET Blocks == {t \in (alo..ahi) \X (blo..bhi) \X (1..(ahi - alo + 1)) :
                      /\ t[1] + t[3] - 1 <= ahi
                      /\ t[2] + t[3] - 1 <= bhi
                      /\ BlockAt(a, b, t[1], t[2], t[3])}
    IN  IF Blocks = {} THEN <<alo, blo, 0>>
        ELSE CHOOSE t \in Blocks :
                \A u \in Blocks :
                    \/ t[3] > u[3]
                    \/ t[3] = u[3] /\ t[1] < u[1]
                    \/ t[3] = u[3] /\ t[1] = u[1] /\ t[2] <= u[2]

\* The total size of SequenceMatcher.get_matching_blocks(): the longest
\* block, then recursively the pieces to its left and to its right.
RECURSIVE MatchingSize(_, _, _, _, _, _)
MatchingSize(a, b, alo, ahi, blo, bhi) ==
    IF alo > ahi \/ blo > bhi THEN 0
    ELSE LET m == find_longest_match(a, b, alo, ahi, blo, bhi)
         IN  IF m[3] = 0 THEN 0
             ELSE m[3]
                  + MatchingSize(a, b, alo, m[1] - 1, blo, m[2] - 1)
                  + MatchingSize(a, b, m[1] + m[3], ahi, m[2] + m[3], bhi)

\* SequenceMatcher(None, a, b).ratio() = 2.0 * matches / (len(a) + len(b))
ratio(a, b) ==
    IF Len(a) + Len(b) = 0 THEN One
    ELSE (2 * MatchingSize(a, b, 1, Len(a), 1, Len(b)) * One) \div (Len(a) + Len(b))

\* `sub in s` for Python strings
Contains(s, sub) ==
    \E i \in 1..(Len(s) - Len(sub) + 1) : SubSeq(s, i, i + Len(sub) - 1) = sub

\* ------------------------------------------------- utils.compare_addresses

\* The weights of compare_addresses, in tenths.
W_zip == 4
W_street == 3
W_city == 2
W_state == 1

AddressFields == <<"street", "city", "state", "zip">>

weights(field) ==
    CASE field = "zip" -> W_zip
      [] field = "street" -> W_street
      [] field = "city" -> W_city
      [] field = "state" -> W_state

\* sum(weights.values()), in tenths
SumOfWeights == W_zip + W_street + W_city + W_state

\* (addr.get(field) or "").lower().strip()
FieldVal(addr, field) == Strip(Lower(OrEmpty(addr[field])))

\* The list weighted_scores of compare_addresses: similarity * weights[field]
\* for the fields that are non-empty on both sides (in units of One/10).
RECURSIVE weighted_scores(_, _, _)
weighted_scores(addr1, addr2, fields) ==
    IF fields = <<>> THEN <<>>
    ELSE LET field == Head(fields)
             val1 == FieldVal(addr1, field)
             val2 == FieldVal(addr2, field)
             rest == weighted_scores(addr1, addr2, Tail(fields))
         IN  IF val1 # <<>> /\ val2 # <<>>
             THEN <<ratio(val1, val2) * weights(field)>> \o rest
             ELSE rest

\* sum(weights.values()) is evaluated in doubles, in the order zip, street,
\* city, state: 0.4 + 0.3 + 0.2 + 0.1 = 0.9999999999999999, not 1.0.  A
\* positive sum divided by it comes out above the exact quotient (0.8 becomes
\* 0.8000000000000002, 1.0 becomes 1.0000000000000002); QuotientExcess is
\* that excess, far below the least difference of two exact scores.
QuotientExcess == 4

\* utils.compare_addresses: sum(weighted_scores) / sum(weights.values())
compare_addresses(addr1, addr2) ==
    LET ws == weighted_scores(addr1, addr2, AddressFields)
        total == SumSeq(ws)
    IN  IF ws = <<>> THEN 0
        ELSE IF total = 0 THEN 0
        ELSE total \div SumOfWeights + QuotientExcess

\* any(address.values()) for a parsed address
AnyField(addr) ==
    \E i \in 1..Len(AddressFields) : Truthy(addr[AddressFields[i]])

\* ------------------------------------------------------- CustomerMatcher

\* A faulty _find_exact_matches: the membership test of the filter is
\* inverted, so it keeps the email results that the phone search did not return.
ExactMatchesInverted(phone_matches, email_matches) ==
    IF phone_matches = <<>> \/ email_matches = <<>> THEN <<>>
    ELSE LET phone_ids == {phone_matches[i].id : i \in 1..Len(phone_matches)}
         IN  SelectSeq(email_matches, LAMBDA c : c.id \notin phone_ids)

\* CustomerMatcher._find_exact_matches
_find_exact_matches(phone_matches, email_matches) ==
    IF phone_matches = <<>> \/ email_matches = <<>> THEN <<>>
    ELSE LET phone_ids == {phone_matches[i].id : i \in 1..Len(phone_matches)}
         IN  SelectSeq(email_matches, LAMBDA c : c.id \in phone_ids)

\* CustomerMatcher._deduplicate_customers
RECURSIVE DedupAcc(_, _, _)
DedupAcc(customers, seen, unique) ==
    IF customers = <<>> THEN unique
    ELSE LET customer == Head(customers)
         IN  IF customer.id # NoId /\ customer.id # "" /\ customer.id \notin seen
             THEN DedupAcc(Tail(customers), seen \cup {customer.id}, Append(unique, customer))
             ELSE DedupAcc(Tail(customers), seen, unique)

_deduplicate_customers(customers) == DedupAcc(customers, {}, <<>>)

\* f"{c.get('first_name', '')} {c.get('last_name', '')}".strip()
CustomerName(c) == Strip(c.first_name \o <<" ">> \o c.last_name)

\* SequenceMatcher(None, name.lower(), customer_name.lower()).ratio()
name_similarity(name, customer_name) == ratio(Lower(name), Lower(customer_name))

\* The loop over candidate["addresses"] in _select_best_match:
\*     score = max(score, score + addr_similarity * 0.5)
RECURSIVE AddressScore(_, _, _)
AddressScore(score, address, addrs) ==
    IF addrs = <<>> THEN score
    ELSE AddressScore(Max(score, score + compare_addresses(address, Head(addrs)) \div 2),
                      address, Tail(addrs))

\* The score _select_best_match gives one candidate.
CandidateScore(candidate, name, address) ==
    LET candidate_name == CustomerName(candidate)
        name_score == IF Truthy(name) /\ candidate_name # <<>>
                      THEN name_similarity(name, candidate_name) \div 2
                      ELSE 0
    IN  AddressScore(name_score, address, candidate.addresses)

\* CustomerMatcher._select_best_match: the highest score; the stable sort
\* keeps the first of equal scores.
_select_best_match(candidates, name, address) ==
    IF Len(candidates) = 1 THEN candidates[1]
    ELSE LET score(i) == CandidateScore(candidates[i], name, address)
             best == CHOOSE i \in 1..Len(candidates) :
                        \A j \in 1..Len(candidates) :
                            \/ score(i) > score(j)
                            \/ score(i) = score(j) /\ i <= j
         IN  candidates[best]

\* CustomerMatcher._customer_has_phone
_customer_has_phone(customer, phone) ==
    LET stored == IF Truthy(customer.mobile_number) THEN customer.mobile_number
                  ELSE IF Truthy(customer.home_number) THEN customer.home_number
                  ELSE <<>>
        customer_phone == normalize_phone(stored, <<"4", "1", "5">>)
    IN  IF Truthy(customer_phone) THEN customer_phone = phone ELSE FALSE

\* CustomerMatcher._customer_has_email
_customer_has_email(customer, email) ==
    LET customer_email == Strip(Lower(OrEmpty(customer.email)))
    IN  IF customer_email # <<>> THEN customer_email = Strip(Lower(email)) ELSE FALSE

\* A faulty _calculate_confidence: phone and email weigh 0.5 each, so the
\* three weights sum to 1.2.
ConfidenceOverweighted(customer, phone, email, name) ==
    LET phone_score == IF Truthy(phone) /\ _customer_has_phone(customer, phone)
                       THEN One \div 2 ELSE 0
        email_score == IF Truthy(email) /\ _customer_has_email(customer, email)
                       THEN One \div 2 ELSE 0
        customer_name == CustomerName(customer)
        name_score == IF Truthy(name) /\ customer_name # <<>>
                      THEN ratio(Lower(name), Lower(customer_name)) \div 5
                      ELSE 0
    IN  phone_score + email_score + name_score

\* A faulty _calculate_confidence: the score is renormalized over the weights
\* of the signals that were supplied.
ConfidenceRenormalized(customer, phone, email, name) ==
    LET phone_score == IF Truthy(phone) /\ _customer_has_phone(customer, phone)
                       THEN (4 * One) \div 10 ELSE 0
        email_score == IF Truthy(email) /\ _customer_has_email(customer, email)
                       THEN (4 * One) \div 10 ELSE 0
        customer_name == CustomerName(customer)
        name_score == IF Truthy(name) /\ customer_name # <<>>
                      THEN name_similarity(name, customer_name) \div 5
                      ELSE 0
        supplied == (IF Truthy(phone) THEN 4 ELSE 0) + (IF Truthy(email) THEN 4 ELSE 0)
                    + (IF Truthy(name) THEN 2 ELSE 0)
    IN  IF supplied = 0 THEN 0
        ELSE ((phone_score + email_score + name_score) * 10) \div supplied

\* CustomerMatcher._calculate_confidence
_calculate_confidence(customer, phone, email, name) ==
    LET phone_score == IF Truthy(phone) /\ _customer_has_phone(customer, phone)
                       THEN (4 * One) \div 10 ELSE 0
        email_score == IF Truthy(email) /\ _customer_has_email(customer, email)
                       THEN (4 * One) \div 10 ELSE 0
        customer_name == CustomerName(customer)
        name_score == IF Truthy(name) /\ customer_name # <<>>
                      THEN name_similarity(name, customer_name) \div 5
                      ELSE 0
    IN  phone_score + email_score + name_score

\* The warnings of a MatchResult.  The partial-match text names the matched
\* fields; the duplicate text is fixed.
PartialWarning(matched_fields) == [kind |-> "partial_match", matched |-> matched_fields]
DuplicateWarning == [kind |-> "possible_duplicate", matched |-> <<>>]

\* MatchResult(...)
MatchResult(match_type, confidence, customer_id, customer_data, warnings, should_create_new) ==
    [match_type |-> match_type, confidence |-> confidence, customer_id |-> customer_id,
     customer_data |-> customer_data, warnings |-> warnings,
     should_create_new |-> should_create_new]

\* A faulty exact branch: the confidence is scored like a partial match's
\* two contact signals instead of being 1.0.
ExactResultScored(best_match) ==
    MatchResult("exact", (8 * One) \div 10, best_match.id, <<best_match>>, <<>>, FALSE)

\* find_matching_customer, lines 102-117: the result for an exact match.
ExactResult(best_match) ==
    MatchResult("exact", One, best_match.id, <<best_match>>, <<>>, FALSE)

\* A faulty partial branch: the possible-duplicate warning is not appended.
PartialResultNoDuplicateWarning(best_match, phone, email, name, is_existing_customer) ==
    LET confidence == _calculate_confidence(best_match, phone, email, name)
        matched_fields ==
            (IF Truthy(phone) /\ _customer_has_phone(best_match, phone)
             THEN <<"phone">> ELSE <<>>)
            \o (IF Truthy(email) /\ _customer_has_email(best_match, email)
                THEN <<"email">> ELSE <<>>)
        warnings == <<PartialWarning(matched_fields)>>
    IN  IF is_existing_customer
        THEN MatchResult("partial", confidence, best_match.id, <<best_match>>,
                         warnings, FALSE)
        ELSE MatchResult("partial", confidence, NoId, <<best_match>>, warnings, TRUE)

\* A faulty partial branch: the existing-customer flag is not consulted, every
\* partial match asks for a new customer.
PartialResultFlagIgnored(best_match, phone, email, name, is_existing_customer) ==
    LET confidence == _calculate_confidence(best_match, phone, email, name)
        matched_fields ==
            (IF Truthy(phone) /\ _customer_has_phone(best_match, phone)
             THEN <<"phone">> ELSE <<>>)
            \o (IF Truthy(email) /\ _customer_has_email(best_match, email)
                THEN <<"email">> ELSE <<>>)
        warnings == <<PartialWarning(matched_fields)>>
    IN  MatchResult("partial", confidence, NoId, <<best_match>>,
                    Append(warnings, DuplicateWarning), TRUE)

\* A faulty partial branch: the matched customer is reused, but its id is not
\* copied into the result.
PartialResultWithoutId(best_match, phone, email, name, is_existing_customer) ==
    LET confidence == _calculate_confidence(best_match, phone, email, name)
        matched_fields ==
            (IF Truthy(phone) /\ _customer_has_phone(best_match, phone)
             THEN <<"phone">> ELSE <<>>)
            \o (IF Truthy(email) /\ _customer_has_email(best_match, email)
                THEN <<"email">> ELSE <<>>)
        warnings == <<PartialWarning(matched_fields)>>
    IN  IF is_existing_customer
        THEN MatchResult("partial", confidence, NoId, <<best_match>>, warnings, FALSE)
        ELSE MatchResult("partial", confidence, NoId, <<best_match>>,
                         Append(warnings, DuplicateWarning), TRUE)

\* find_matching_customer, lines 119-169: the result for a partial match.
PartialResult(best_match, phone, email, name, is_existing_customer) ==
    LET confidence == _calculate_confidence(best_match, phone, email, name)
        matched_fields ==
            (IF Truthy(phone) /\ _customer_has_phone(best_match, phone)
             THEN <<"phone">> ELSE <<>>)
            \o (IF Truthy(email) /\ _customer_has_email(best_match, email)
                THEN <<"email">> ELSE <<>>)
        warnings == <<PartialWarning(matched_fields)>>
    IN  IF is_existing_customer
        THEN MatchResult("partial", confidence, best_match.id, <<best_match>>,
                         warnings, FALSE)
        ELSE MatchResult("partial", confidence, NoId, <<best_match>>,
                         Append(warnings, DuplicateWarning), TRUE)

\* A faulty none branch: should_create_new is left at its default, False.
NoneResultReuse == MatchResult("none", 0, NoId, <<>>, <<>>, FALSE)

\* find_matching_customer, lines 171-180: the result when nothing matched.
NoneResult == MatchResult("none", 0, NoId, <<>>, <<>>, TRUE)

\* CustomerMatcher.find_matching_customer, from the two search results on.
\* customer_data is <<>> for None and <<record>> otherwise.
find_matching_customer(phone_matches, email_matches, phone, email, name, address, is_existing_customer) ==
    LET exact_matches == _find_exact_matches(phone_matches, email_matches)
        all_matches == _deduplicate_customers(phone_matches \o email_matches)
    IN  IF exact_matches # <<>>
        THEN ExactResult(_select_best_match(exact_matches, name, address))
        ELSE IF all_matches # <<>>
        THEN PartialResult(_select_best_match(all_matches, name, address),
                           phone, email, name, is_existing_customer)
        ELSE NoneResult

\* CustomerMatcher.should_create_new_address
RECURSIVE AnySimilarAbove(_, _, _)
AnySimilarAbove(existing_addresses, new_address, threshold) ==
    IF existing_addresses = <<>> THEN FALSE
    ELSE \/ compare_addresses(new_address, Head(existing_addresses)) > threshold
         \/ AnySimilarAbove(Tail(existing_addresses), new_address, threshold)

\* A faulty should_create_new_address: an address counts as known from a
\* similarity of one half on.
ShouldCreateAboveHalf(customer, new_address) ==
    IF ~AnyField(new_address) THEN FALSE
    ELSE IF customer.addresses = <<>> THEN TRUE
    ELSE ~AnySimilarAbove(customer.addresses, new_address, One \div 2)

should_create_new_address(customer, new_address) ==
    IF ~AnyField(new_address) THEN FALSE
    ELSE IF customer.addresses = <<>> THEN TRUE
    ELSE ~AnySimilarAbove(customer.addresses, new_address, (8 * One) \div 10)

\* ------------------------------------------------------------ LeadCreator

\* The four fields of an address record of the directory.
existing_parsed(existing_addr) ==
    [street |-> existing_addr.street, city |-> existing_addr.city,
     state |-> existing_addr.state, zip |-> existing_addr.zip]

\* A faulty _find_matching_address_from_list: the first address of the list
\* is taken for the match, whatever its similarity.
FindMatchingTakesHead(addresses, new_address) ==
    IF addresses = <<>> THEN <<>> ELSE <<Head(addresses)>>

\* LeadCreator._find_matching_address_from_list: <<>> for None, else <<addr>>.
RECURSIVE _find_matching_address_from_list(_, _)
_find_matching_address_from_list(addresses, new_address) ==
    IF addresses = <<>> THEN <<>>
    ELSE IF compare_addresses(existing_parsed(Head(addresses)), new_address)
               >= (8 * One) \div 10
    THEN <<Head(addresses)>>
    ELSE _find_matching_address_from_list(Tail(addresses), new_address)

\* A key a dict does not hold, or holds with a falsy value, reads as None.
Opt(v) == IF Truthy(v) THEN v ELSE None

US == <<"U", "S">>

\* LeadCreator._build_address_dict: <<>> for None, else <<address>>.
_build_address_dict(parsed_address) ==
    IF ~AnyField(parsed_address) THEN <<>>
    ELSE <<[street |-> Opt(parsed_address.street),
            city |-> Opt(parsed_address.city),
            state |-> IF Truthy(parsed_address.state) THEN parsed_address.state
                      ELSE DEFAULT_STATE,
            zip |-> Opt(parsed_address.zip),
            country |-> US]>>

\* LeadCreator._build_address_dict_from_api
_build_address_dict_from_api(api_address) ==
    <<[street |-> Opt(api_address.street),
       city |-> Opt(api_address.city),
       state |-> Opt(api_address.state),
       zip |-> Opt(api_address.zip),
       country |-> US]>>

\* The address block of the customer record _create_customer posts:
\* <<>> when the parsed address has no field.
CustomerAddressPayload(address) ==
    IF ~AnyField(address) THEN <<>>
    ELSE <<[street |-> Opt(address.street), city |-> Opt(address.city),
            state |-> Opt(address.state), zip |-> Opt(address.zip),
            country |-> US]>>

Unknown == <<"U", "n", "k", "n", "o", "w", "n">>

\* customer_data of LeadCreator._create_customer
CustomerPayload(first_name, last_name, email, phone, address) ==
    [first_name |-> IF Truthy(first_name) THEN first_name ELSE Unknown,
     last_name |-> OrEmpty(last_name),
     email |-> Opt(email),
     mobile_number |-> Opt(phone),
     addresses |-> CustomerAddressPayload(address)]

\* address_data of LeadCreator._add_address_to_customer
AddressPayload(address) ==
    [street |-> Opt(address.street), city |-> Opt(address.city),
     state |-> IF Truthy(address.state) THEN address.state ELSE DEFAULT_STATE,
     zip |-> Opt(address.zip), country |-> US]

\* lead_data of LeadCreator._create_lead_with_job_type: the customer and
\* address it refers to.
LeadPayload(customer_id, address_id, address) ==
    [customer_id |-> customer_id, address_id |-> address_id, address |-> address]

\* LeadCreationResult(...)
LeadCreationResult(success, customer_id, job_id, message, warnings, error) ==
    [success |-> success, customer_id |-> customer_id, job_id |-> job_id,
     message |-> message, warnings |-> warnings, error |-> error]

\* f"Lead created successfully (match type: {match_type})"
SuccessMessage(match_type) == <<"Lead created successfully (match type: ", match_type, ")">>

FailedCustomer == "Failed to create customer"
FailedLead == "Failed to create lead"

\* ------------------------------------------------------- HCPClient._request

\* HCPClient._request's retry_count
retry_count == 3

\* What one HTTP attempt can meet: a 2xx answer, an HTTP error status, a
\* network error, a 429 with a usable Retry-After, a 429 whose Retry-After
\* is no integer (an HTTP date): int() raises ValueError.
AttemptKinds == {"ok", "http_error", "request_error", "rate_limited", "bad_retry_after"}

\* One iteration of the loop of HCPClient._request, attempt = 0, 1, ...:
\* "return" the body, "retry", raise "HCPAPIError", or raise "ValueError".
_request(attempt, kind) ==
    CASE kind = "ok" -> "return"
      [] kind = "bad_retry_after" -> "ValueError"
      [] kind = "rate_limited" ->
            IF attempt + 1 < retry_count THEN "retry" ELSE "HCPAPIError"
      [] kind \in {"http_error", "request_error"} ->
            IF attempt = retry_count - 1 THEN "HCPAPIError" ELSE "retry"

\* str(e) of the ValueError of int(): it quotes the header.
FaultTexts == {"invalid literal for int() with base 10: 'Wed, 21 Oct 2026 07:28:00 GMT'",
               "invalid literal for int() with base 10: '1.5'"}

\* --------------------------------------------------- the directory's stub

S1 == <<"1", " ", "a">>
S2 == <<"2", " ", "b">>
City1 == <<"s", "f">>
CA == <<"C", "A">>
Z1 == <<"9", "4", "1", "0", "2">>
Z2 == <<"9", "4", "6", "0", "1">>

DA1 == [id |-> "A1", street |-> S1, city |-> City1, state |-> CA, zip |-> Z1]
DA2 == [id |-> "A2", street |-> S2, city |-> City1, state |-> CA, zip |-> Z2]
DA3 == [id |-> "A3", street |-> S2, city |-> None, state |-> None, zip |-> Z1]

DirAddresses == {DA1, DA2, DA3}

StoredPhone1 == <<"(", "4", "1", "5", ")", " ", "5", "5", "5", "-", "1", "2", "3", "4">>
StoredPhone2 == <<"4", "1", "5", "5", "5", "5", "0", "0", "0", "0">>
Email1 == <<"A", "@", "x">>
Email2 == <<"b", "@", "x">>

K1 == [id |-> "C1", first_name |-> <<"a">>, last_name |-> <<"b">>,
       mobile_number |-> StoredPhone1, home_number |-> None, email |-> Email1,
       addresses |-> <<DA1>>]
K2 == [id |-> "C2", first_name |-> <<"b">>, last_name |-> <<>>,
       mobile_number |-> None, home_number |-> StoredPhone2, email |-> Email2,
       addresses |-> <<DA2, DA3>>]

\* The customer records of the directory.
Directory == {K1, K2}

\* The longest list a search returns.
MaxResults == 2

\* The longest list getCustomerAddresses returns.
MaxAddresses == 2

SeqsUpTo(S, n) == UNION {[1..k -> S] : k \in 0..n}

\* response.get("customers", []) of a 2xx answer to GET /customers?q=...:
\* the search is free text, the directory may answer with any records.
SearchBodies == SeqsUpTo(Directory, MaxResults)

\* response.get("addresses", []) of GET /customers/{id}/addresses: the
\* directory may answer with a list that differs from the one in the
\* customer record of the search.
AddressListBodies == SeqsUpTo({DA1, DA2}, MaxAddresses)

\* The ids the directory gives new records.
NewCustomerIds == {"C8", "C9"}
NewAddressIds == {"A9"}
NewLeadIds == {"L1", "L2"}

\* response.get("id") of a 2xx answer to POST /customers: NoId when the
\* answer carries none.
CreateCustomerBodies == NewCustomerIds \cup {NoId}

\* A 2xx answer to POST /customers/{id}/addresses: no "address" key (<<>>),
\* or an address with or without an id.
AddAddressBodies == {<<>>} \cup {<<[id |-> a]>> : a \in NewAddressIds \cup {NoId}}

CreateLeadBodies == NewLeadIds \cup {NoId}

\* The record the directory holds under an address id: one of its own, or
\* the address the submission has just posted.
AddressRecord(address_id, posted) ==
    IF \E a \in DirAddresses : a.id = address_id
    THEN CHOOSE a \in DirAddresses : a.id = address_id
    ELSE [id |-> address_id, street |-> posted.street, city |-> posted.city,
          state |-> posted.state, zip |-> posted.zip]

\* ------------------------------------------------------- the submissions

PhoneInputs == {<<"1", "2">>,
                <<"5", "5", "5", "-", "1", "2", "3", "4">>}

EmailInputs == {<<>>, <<" ", "a", "@", "X">>}

NameInputs == {[first_name |-> <<>>, last_name |-> <<>>, name |-> <<>>],
               [first_name |-> <<>>, last_name |-> <<>>, name |-> <<"a", " ", "b">>],
               [first_name |-> <<"B">>, last_name |-> <<>>, name |-> <<>>]}

RawAddress1 == <<"1", " ", "a", ",", " ", "s", "f", ",", " ", "C", "A", " ",
                 "9", "4", "1", "0", "2">>

AddressInputs ==
    {[street |-> None, city |-> None, state |-> None, zip |-> None, address |-> <<>>],
     [street |-> S1, city |-> None, state |-> None, zip |-> Z1, address |-> <<>>],
     [street |-> None, city |-> None, state |-> None, zip |-> None, address |-> RawAddress1],
     [street |-> None, city |-> None, state |-> None, zip |-> None, address |-> S2]}

CustomerTypeInputs == {<<"N", "e", "w">>,
                       <<"E", "x", "i", "s", "t", "i", "n", "g">>}

\* form_data
Forms ==
    {[phone |-> p, email |-> e, first_name |-> n.first_name, last_name |-> n.last_name,
      name |-> n.name, street |-> a.street, city |-> a.city, state |-> a.state,
      zip |-> a.zip, address |-> a.address, customer_type |-> t] :
        p \in PhoneInputs, e \in EmailInputs, n \in NameInputs, a \in AddressInputs,
        t \in CustomerTypeInputs}

SubIds == {1, 2}

VARIABLES
    sub,        \* sub[s]: the locals of create_lead for submission s
    pending     \* the submissions that have not arrived yet

vars == <<sub, pending>>

Idle ==
    [pc |-> "idle", attempt |-> 0,
     phone |-> None, email |-> <<>>, name |-> <<>>, first_name |-> <<>>,
     last_name |-> <<>>, parsed_address |-> NoAddress, is_existing_customer |-> FALSE,
     phone_matches |-> <<>>, email_matches |-> <<>>, match |-> <<>>,
     customer_id |-> NoId, new_address_id |-> NoId, customer_addresses |-> <<>>,
     address_id |-> NoId,
     address_for_lead |-> <<>>, lead_data |-> <<>>, result |-> <<>>, calls |-> <<>>]

\* ------------------------------------------------ LeadCreator.create_lead

Goto(l, pc) == [l EXCEPT !.pc = pc, !.attempt = 0]

\* One finished call of a client method, as the orchestrator saw it: the
\* operation, the ids it was given, the record it posted (<<>> for a read)
\* and the ids its answer carried.
Logged(l, op, customer_id, address_id, posted, returned) ==
    [l EXCEPT !.calls = Append(@, [op |-> op, customer_id |-> customer_id,
                                   address_id |-> address_id, posted |-> posted,
                                   returned |-> returned])]

Finish(l, result) == [Goto(l, "done") EXCEPT !.result = <<result>>]

\* except Exception as e: LeadCreationResult(success=False, error=str(e))
Caught(l, text) == Finish(l, LeadCreationResult(FALSE, NoId, NoId, <<>>, <<>>, text))

\* A faulty create_lead: the resolved customer id is kept in a field of the
\* LeadCreator, which all submissions share, so the lead is posted with the
\* id another submission has written there.
IssueCreateLeadFromInstance(l, address_id, address_for_lead) ==
    LET others == {t \in SubIds : sub[t].customer_id \notin {NoId, l.customer_id}}
        customer_id == IF others = {} THEN l.customer_id
                       ELSE sub[CHOOSE t \in others : TRUE].customer_id
    IN  [Goto(l, "create_lead") EXCEPT
            !.address_id = address_id,
            !.address_for_lead = address_for_lead,
            !.lead_data = <<LeadPayload(customer_id, address_id, address_for_lead)>>]

\* create_lead, lines 309-318: the lead is posted next.
IssueCreateLead(l, address_id, address_for_lead) ==
    [Goto(l, "create_lead") EXCEPT
        !.address_id = address_id,
        !.address_for_lead = address_for_lead,
        !.lead_data = <<LeadPayload(l.customer_id, address_id, address_for_lead)>>]

\* create_lead, lines 302-307: with an address id, the address is fetched.
FetchOrIssue(l, address_id) ==
    IF address_id # NoId /\ l.customer_id # NoId
    THEN [Goto(l, "get_address") EXCEPT !.address_id = address_id]
    ELSE IssueCreateLead(l, address_id, <<>>)

\* create_lead, lines 283-300, for a reused customer.
ResolveLeadAddress(l) ==
    IF l.new_address_id # NoId THEN FetchOrIssue(l, l.new_address_id)
    ELSE IF l.customer_id # NoId THEN Goto(l, "get_addresses")
    ELSE FetchOrIssue(l, NoId)

\* create_lead, lines 225-257: the branch on should_create_new.
AfterMatch(l, match_result) ==
    LET l1 == [l EXCEPT !.match = <<match_result>>]
    IN  IF match_result.should_create_new THEN Goto(l1, "create_customer")
        ELSE LET l2 == [l1 EXCEPT !.customer_id = match_result.customer_id]
             IN  IF /\ match_result.customer_data # <<>>
                    /\ should_create_new_address(match_result.customer_data[1],
                                                 l.parsed_address)
                    /\ AnyField(l.parsed_address)
                 THEN Goto(l2, "add_address")
                 ELSE ResolveLeadAddress(l2)

\* A faulty find_matching_customer: the list of warnings is kept on the
\* matcher, which all submissions share, so a result starts with the warnings
\* of a submission matched before.
MatchedSharesWarnings(l) ==
    LET earlier == {t \in SubIds : sub[t].match # <<>>}
        kept == IF earlier = {} THEN <<>>
                ELSE sub[CHOOSE t \in earlier : TRUE].match[1].warnings
        match_result == find_matching_customer(l.phone_matches, l.email_matches, l.phone,
                                               l.email, l.name, l.parsed_address,
                                               l.is_existing_customer)
    IN  AfterMatch(l, [match_result EXCEPT !.warnings = kept \o @])

\* find_matching_customer after its searches, and create_lead up to the
\* next call of the directory.
Matched(l) ==
    AfterMatch(l, find_matching_customer(l.phone_matches, l.email_matches, l.phone,
                                         l.email, l.name, l.parsed_address,
                                         l.is_existing_customer))

\* A faulty find_matching_customer: after a phone search that found
\* customers the email search is left out.
AfterPhoneSearchSkipsEmail(l) ==
    IF Truthy(l.email) /\ l.phone_matches = <<>> THEN Goto(l, "search_email") ELSE Matched(l)

\* find_matching_customer, lines 97-100
AfterPhoneSearch(l) == IF Truthy(l.email) THEN Goto(l, "search_email") ELSE Matched(l)

\* A faulty find_matching_customer: the phone search is made whether or not
\* there is a normalized phone.
BeginMatchingAlwaysSearches(l) == Goto(l, "search_phone")

\* find_matching_customer, lines 92-95
BeginMatching(l) ==
    IF Truthy(l.phone) THEN Goto(l, "search_phone") ELSE AfterPhoneSearch(l)

Ids(records) == {records[i].id : i \in 1..Len(records)}

\* create_lead, lines 171-212: the locals taken from form_data.
Extracted(form_data) ==
    LET email == Lower(sanitize_string(form_data.email))
        name == IF ~Truthy(form_data.name)
                   /\ (Truthy(form_data.first_name) \/ Truthy(form_data.last_name))
                THEN Strip(form_data.first_name \o <<" ">> \o form_data.last_name)
                ELSE form_data.name
        parsed == IF ~Truthy(form_data.first_name) /\ Truthy(form_data.name)
                     /\ ~(~Truthy(form_data.name)
                          /\ (Truthy(form_data.first_name) \/ Truthy(form_data.last_name)))
                  THEN parse_name(form_data.name)
                  ELSE <<form_data.first_name, form_data.last_name>>
        customer_type == Lower(sanitize_string(form_data.customer_type))
        parsed_address ==
            IF Truthy(form_data.street) \/ Truthy(form_data.city) \/ Truthy(form_data.zip)
            THEN [street |-> form_data.street, city |-> form_data.city,
                  state |-> IF Truthy(form_data.state) THEN form_data.state
                            ELSE DEFAULT_STATE,
                  zip |-> form_data.zip]
            ELSE parse_address(form_data.address)
    IN  [Idle EXCEPT
            !.phone = normalize_phone(form_data.phone, DEFAULT_AREA_CODE),
            !.email = email,
            !.name = name,
            !.first_name = parsed[1],
            !.last_name = parsed[2],
            !.parsed_address = parsed_address,
            !.is_existing_customer =
                \/ Contains(customer_type, <<"e", "x", "i", "s", "t", "i", "n", "g">>)
                \/ Contains(customer_type, <<"r", "e", "t", "u", "r", "n", "i", "n", "g">>)]

\* A faulty create_lead: the check `if not customer_id` is missing, the lead
\* is posted whatever _create_customer returned.
AfterCreateCustomerUnchecked(l, customer_id) ==
    IssueCreateLead([Logged(l, "createCustomer", NoId, NoId,
                      <<CustomerPayload(l.first_name, l.last_name, l.email, l.phone,
                                        l.parsed_address)>>,
                            IF customer_id = NoId THEN {} ELSE {customer_id})
                        EXCEPT !.customer_id = customer_id],
                    NoId, _build_address_dict(l.parsed_address))

\* create_lead, lines 241-245 and 274-281: after _create_customer returned.
AfterCreateCustomer(l, customer_id) ==
    LET l1 == [Logged(l, "createCustomer", NoId, NoId,
                      <<CustomerPayload(l.first_name, l.last_name, l.email, l.phone,
                                        l.parsed_address)>>,
                      IF customer_id = NoId THEN {} ELSE {customer_id})
                  EXCEPT !.customer_id = customer_id]
    IN  IF customer_id = NoId
        THEN Finish(l1, LeadCreationResult(FALSE, NoId, NoId, <<>>, <<>>, FailedCustomer))
        ELSE IssueCreateLead(l1, NoId, _build_address_dict(l.parsed_address))

\* A faulty create_lead: when _add_address_to_customer returns nothing, it is
\* called a second time.
AfterAddCustomerAddressTriesAgain(l, address) ==
    LET new_address_id == IF address = <<>> THEN NoId ELSE address[1].id
        l1 == [Logged(l, "addCustomerAddress", l.customer_id, NoId,
                      <<AddressPayload(l.parsed_address)>>,
                      IF new_address_id = NoId THEN {} ELSE {new_address_id})
                  EXCEPT !.new_address_id = new_address_id]
    IN  IF new_address_id = NoId /\ Len(l.calls) < 3 THEN Goto(l1, "add_address")
        ELSE ResolveLeadAddress(l1)

\* create_lead, lines 254-257: after _add_address_to_customer returned.
AfterAddCustomerAddress(l, address) ==
    LET new_address_id == IF address = <<>> THEN NoId ELSE address[1].id
    IN  ResolveLeadAddress(
            [Logged(l, "addCustomerAddress", l.customer_id, NoId,
                    <<AddressPayload(l.parsed_address)>>,
                    IF new_address_id = NoId THEN {} ELSE {new_address_id})
                EXCEPT !.new_address_id = new_address_id])

\* create_lead, lines 293-300: after get_customer_addresses returned.
AfterGetCustomerAddresses(l, customer_addresses) ==
    LET matched_address ==
            _find_matching_address_from_list(customer_addresses, l.parsed_address)
        address_id == IF matched_address = <<>> THEN NoId ELSE matched_address[1].id
    IN  FetchOrIssue([Logged(l, "getCustomerAddresses", l.customer_id, NoId, <<>>,
                             Ids(customer_addresses))
                         EXCEPT !.customer_addresses = customer_addresses],
                     address_id)

\* A faulty create_lead: when get_address_by_id returns nothing, the parsed
\* address of the form is attached to the lead in its place.
AfterGetAddressByIdFallsBack(l, full_address) ==
    IssueCreateLead(Logged(l, "getAddressById", l.customer_id, l.address_id, <<>>,
                           Ids(full_address)),
                    l.address_id,
                    IF full_address = <<>> THEN _build_address_dict(l.parsed_address)
                    ELSE _build_address_dict_from_api(full_address[1]))

\* create_lead, lines 303-307: after get_address_by_id returned.
AfterGetAddressById(l, full_address) ==
    IssueCreateLead(Logged(l, "getAddressById", l.customer_id, l.address_id, <<>>,
                           Ids(full_address)),
                    l.address_id,
                    IF full_address = <<>> THEN <<>>
                    ELSE _build_address_dict_from_api(full_address[1]))

\* A faulty create_lead: the failure result of lead creation forgets the
\* customer id.
AfterCreateLeadForgetsCustomer(l, lead_id) ==
    LET l1 == Logged(l, "createLead", l.lead_data[1].customer_id,
                     l.lead_data[1].address_id, l.lead_data,
                     IF lead_id = NoId THEN {} ELSE {lead_id})
    IN  IF lead_id = NoId
        THEN Finish(l1, LeadCreationResult(FALSE, NoId, NoId, <<>>, <<>>, FailedLead))
        ELSE Finish(l1, LeadCreationResult(TRUE, l.customer_id, lead_id,
                                           SuccessMessage(l.match[1].match_type),
                                           l.match[1].warnings, NoId))

\* A faulty create_lead: the success result does not carry the warnings of
\* the match.
AfterCreateLeadDropsWarnings(l, lead_id) ==
    LET l1 == Logged(l, "createLead", l.lead_data[1].customer_id,
                     l.lead_data[1].address_id, l.lead_data,
                     IF lead_id = NoId THEN {} ELSE {lead_id})
    IN  IF lead_id = NoId
        THEN Finish(l1, LeadCreationResult(FALSE, l.customer_id, NoId, <<>>, <<>>,
                                           FailedLead))
        ELSE Finish(l1, LeadCreationResult(TRUE, l.customer_id, lead_id,
                                           SuccessMessage(l.match[1].match_type),
                                           <<>>, NoId))

\* create_lead, lines 320-334: after _create_lead_with_job_type returned.
AfterCreateLead(l, lead_id) ==
    LET l1 == Logged(l, "createLead", l.lead_data[1].customer_id,
                     l.lead_data[1].address_id, l.lead_data,
                     IF lead_id = NoId THEN {} ELSE {lead_id})
    IN  IF lead_id = NoId
        THEN Finish(l1, LeadCreationResult(FALSE, l.customer_id, NoId, <<>>, <<>>,
                                           FailedLead))
        ELSE Finish(l1, LeadCreationResult(TRUE, l.customer_id, lead_id,
                                           SuccessMessage(l.match[1].match_type),
                                           l.match[1].warnings, NoId))

\* A submission arrives: create_lead runs up to its first call of the directory.
Start(s) ==
    /\ s \in pending
    /\ sub[s].pc = "idle"
    /\ \E form_data \in Forms :
          sub' = [sub EXCEPT ![s] = BeginMatching(Extracted(form_data))]
    /\ pending' = pending \ {s}

Retry(s) == sub' = [sub EXCEPT ![s].attempt = @ + 1]

\* One HTTP attempt of search_customers(phone), and what follows its return.
SearchPhone(s) ==
    /\ sub[s].pc = "search_phone"
    /\ UNCHANGED pending
    /\ \E kind \in AttemptKinds :
          LET l == sub[s]
              step == _request(l.attempt, kind)
              Returned(customers) ==
                  AfterPhoneSearch([Logged(l, "searchCustomers", NoId, NoId, <<>>, Ids(customers))
                                       EXCEPT !.phone_matches = customers])
          IN  \/ step = "retry" /\ Retry(s)
              \/ /\ step = "return"
                 /\ \E customers \in SearchBodies : sub' = [sub EXCEPT ![s] = Returned(customers)]
              \/ step = "HCPAPIError" /\ sub' = [sub EXCEPT ![s] = Returned(<<>>)]
              \/ /\ step = "ValueError"
                 /\ \E text \in FaultTexts : sub' = [sub EXCEPT ![s] = Caught(l, text)]

\* One HTTP attempt of search_customers(email), and what follows its return.
SearchEmail(s) ==
    /\ sub[s].pc = "search_email"
    /\ UNCHANGED pending
    /\ \E kind \in AttemptKinds :
          LET l == sub[s]
              step == _request(l.attempt, kind)
              Returned(customers) ==
                  Matched([Logged(l, "searchCustomers", NoId, NoId, <<>>, Ids(customers))
                              EXCEPT !.email_matches = customers])
          IN  \/ step = "retry" /\ Retry(s)
              \/ /\ step = "return"
                 /\ \E customers \in SearchBodies : sub' = [sub EXCEPT ![s] = Returned(customers)]
              \/ step = "HCPAPIError" /\ sub' = [sub EXCEPT ![s] = Returned(<<>>)]
              \/ /\ step = "ValueError"
                 /\ \E text \in FaultTexts : sub' = [sub EXCEPT ![s] = Caught(l, text)]

\* One HTTP attempt of create_customer, through _create_customer, and
\* create_lead, lines 241-245 and 274-281.
CreateCustomer(s) ==
    /\ sub[s].pc = "create_customer"
    /\ UNCHANGED pending
    /\ \E kind \in AttemptKinds :
          LET l == sub[s]
              step == _request(l.attempt, kind)
              Returned(customer_id) == AfterCreateCustomer(l, customer_id)
          IN  \/ step = "retry" /\ Retry(s)
              \/ /\ step = "return"
                 /\ \E id \in CreateCustomerBodies : sub' = [sub EXCEPT ![s] = Returned(id)]
              \/ step = "HCPAPIError" /\ sub' = [sub EXCEPT ![s] = Returned(NoId)]
              \/ /\ step = "ValueError"
                 /\ \E text \in FaultTexts : sub' = [sub EXCEPT ![s] = Caught(l, text)]

\* One HTTP attempt of add_customer_address, through _add_address_to_customer.
AddCustomerAddress(s) ==
    /\ sub[s].pc = "add_address"
    /\ UNCHANGED pending
    /\ \E kind \in AttemptKinds :
          LET l == sub[s]
              step == _request(l.attempt, kind)
              Returned(address) == AfterAddCustomerAddress(l, address)
          IN  \/ step = "retry" /\ Retry(s)
              \/ /\ step = "return"
                 /\ \E address \in AddAddressBodies : sub' = [sub EXCEPT ![s] = Returned(address)]
              \/ step = "HCPAPIError" /\ sub' = [sub EXCEPT ![s] = Returned(<<>>)]
              \/ /\ step = "ValueError"
                 /\ \E text \in FaultTexts : sub' = [sub EXCEPT ![s] = Caught(l, text)]

\* One HTTP attempt of get_customer_addresses, and create_lead, lines 293-307.
GetCustomerAddresses(s) ==
    /\ sub[s].pc = "get_addresses"
    /\ UNCHANGED pending
    /\ \E kind \in AttemptKinds :
          LET l == sub[s]
              step == _request(l.attempt, kind)
              Returned(customer_addresses) ==
                  AfterGetCustomerAddresses(l, customer_addresses)
          IN  \/ step = "retry" /\ Retry(s)
              \/ /\ step = "return"
                 /\ \E addresses \in AddressListBodies :
                       sub' = [sub EXCEPT ![s] = Returned(addresses)]
              \/ step = "HCPAPIError" /\ sub' = [sub EXCEPT ![s] = Returned(<<>>)]
              \/ /\ step = "ValueError"
                 /\ \E text \in FaultTexts : sub' = [sub EXCEPT ![s] = Caught(l, text)]

\* One HTTP attempt of get_address_by_id, and create_lead, lines 305-318.
GetAddressById(s) ==
    /\ sub[s].pc = "get_address"
    /\ UNCHANGED pending
    /\ \E kind \in AttemptKinds :
          LET l == sub[s]
              step == _request(l.attempt, kind)
              Returned(full_address) == AfterGetAddressById(l, full_address)
          IN  \/ step = "retry" /\ Retry(s)
              \/ /\ step = "return"
                 /\ sub' = [sub EXCEPT ![s] =
                               Returned(<<AddressRecord(l.address_id,
                                                        AddressPayload(l.parsed_address))>>)]
              \/ step = "HCPAPIError" /\ sub' = [sub EXCEPT ![s] = Returned(<<>>)]
              \/ /\ step = "ValueError"
                 /\ \E text \in FaultTexts : sub' = [sub EXCEPT ![s] = Caught(l, text)]

\* One HTTP attempt of create_lead of the client, through
\* _create_lead_with_job_type, and create_lead, lines 320-334.
CreateLead(s) ==
    /\ sub[s].pc = "create_lead"
    /\ UNCHANGED pending
    /\ \E kind \in AttemptKinds :
          LET l == sub[s]
              step == _request(l.attempt, kind)
              Returned(lead_id) == AfterCreateLead(l, lead_id)
          IN  \/ step = "retry" /\ Retry(s)
              \/ /\ step = "return"
                 /\ \E id \in CreateLeadBodies : sub' = [sub EXCEPT ![s] = Returned(id)]
              \/ step = "HCPAPIError" /\ sub' = [sub EXCEPT ![s] = Returned(NoId)]
              \/ /\ step = "ValueError"
                 /\ \E text \in FaultTexts : sub' = [sub EXCEPT ![s] = Caught(l, text)]

Init ==
    /\ sub = [s \in SubIds |-> Idle]
    /\ pending = {1}

Next ==
    \E s \in SubIds :
        \/ Start(s)
        \/ SearchPhone(s)
        \/ SearchEmail(s)
        \/ CreateCustomer(s)
        \/ AddCustomerAddress(s)
        \/ GetCustomerAddresses(s)
        \/ GetAddressById(s)
        \/ CreateLead(s)

Spec == Init /\ [][Next]_vars

\* ------------------------------------------------------------ properties

\* find_matching_customer has returned for submission s.
HasMatched(s) == sub[s].match # <<>>

\* The ids that occur in both result lists of submission s.
SharedIds(s) == Ids(sub[s].phone_matches) \cap Ids(sub[s].email_matches)

\* The records that occur in either result list of submission s.
UnionRecords(s) ==
    {sub[s].phone_matches[i] : i \in 1..Len(sub[s].phone_matches)}
        \cup {sub[s].email_matches[i] : i \in 1..Len(sub[s].email_matches)}

\* C1: once find_matching_customer has returned for a submission whose phone
\* and email result lists share at least one customer id, the result is Exact
\* and its customer_id is one of the shared ids, whatever the name, the
\* address and the existing-customer flag of the submission are.
C1_ExactOnSharedId ==
    \A s \in SubIds :
        (HasMatched(s) /\ SharedIds(s) # {}) =>
            /\ sub[s].match[1].match_type = "exact"
            /\ sub[s].match[1].customer_id \in SharedIds(s)

\* Both lists are non-empty and differ, one id is shared, and the submission
\* says "existing": the match is exact on the shared customer.
C1_Witness ==
    \E s \in SubIds :
        /\ HasMatched(s)
        /\ sub[s].phone_matches = <<K1, K2>>
        /\ sub[s].email_matches = <<K2>>
        /\ sub[s].is_existing_customer
        /\ sub[s].match[1].match_type = "exact"
        /\ sub[s].match[1].customer_id = "C2"

\* C2: when the two result lists share no id, at least one of them is
\* non-empty and the submission does not say "existing", the result is
\* Partial with should_create_new true, no customer_id, the selected candidate
\* (a record of the union) attached, and exactly the partial-match warning
\* followed by the possible-duplicate warning.
C2_PartialNewCustomer ==
    \A s \in SubIds :
        (/\ HasMatched(s)
         /\ SharedIds(s) = {}
         /\ UnionRecords(s) # {}
         /\ ~sub[s].is_existing_customer) =>
            LET m == sub[s].match[1]
            IN  /\ m.match_type = "partial"
                /\ m.should_create_new
                /\ m.customer_id = NoId
                /\ Len(m.customer_data) = 1
                /\ m.customer_data[1] \in UnionRecords(s)
                /\ m.customer_data[1] =
                       _select_best_match(
                           _deduplicate_customers(sub[s].phone_matches
                                                      \o sub[s].email_matches),
                           sub[s].name, sub[s].parsed_address)
                /\ Len(m.warnings) = 2
                /\ m.warnings[1].kind = "partial_match"
                /\ m.warnings[2] = DuplicateWarning

\* Only the phone search returned C1, the submission says "new".
C2_Witness ==
    \E s \in SubIds :
        /\ HasMatched(s)
        /\ sub[s].phone_matches = <<K1>>
        /\ sub[s].email_matches = <<>>
        /\ ~sub[s].is_existing_customer
        /\ sub[s].match[1].match_type = "partial"
        /\ sub[s].match[1].customer_data = <<K1>>
        /\ sub[s].match[1].warnings[2].kind = "possible_duplicate"

\* C3: when the two result lists share no id, at least one of them is
\* non-empty and the submission says "existing", the result is Partial with
\* should_create_new false, its customer_id is the id of the selected
\* candidate, the candidate is a record of the deduplicated union, and the
\* only warning is the partial-match warning.
C3_PartialExistingCustomer ==
    \A s \in SubIds :
        (/\ HasMatched(s)
         /\ SharedIds(s) = {}
         /\ UnionRecords(s) # {}
         /\ sub[s].is_existing_customer) =>
            LET m == sub[s].match[1]
                union == _deduplicate_customers(sub[s].phone_matches
                                                   \o sub[s].email_matches)
            IN  /\ m.match_type = "partial"
                /\ ~m.should_create_new
                /\ Len(m.customer_data) = 1
                /\ m.customer_id = m.customer_data[1].id
                /\ \E i \in 1..Len(union) : union[i] = m.customer_data[1]
                /\ m.customer_id \in Ids(sub[s].phone_matches)
                                        \cup Ids(sub[s].email_matches)
                /\ Len(m.warnings) = 1
                /\ m.warnings[1].kind = "partial_match"

\* The phone search returned C1, the email search C2, the submission says
\* "existing": one of the two is reused.
C3_Witness ==
    \E s \in SubIds :
        /\ HasMatched(s)
        /\ sub[s].phone_matches = <<K1>>
        /\ sub[s].email_matches = <<K2>>
        /\ sub[s].is_existing_customer
        /\ sub[s].match[1].match_type = "partial"
        /\ sub[s].match[1].customer_id \in {"C1", "C2"}
        /\ Len(sub[s].match[1].warnings) = 1

\* The identity searches of submission s are over: each was skipped, has
\* returned, or has failed.
SearchesOver(s) == sub[s].pc \notin {"idle", "search_phone", "search_email"}

\* create_lead went on to customer creation for submission s: the call is
\* about to be made, has returned, or ended in a fault of its own.
ReachedCustomerCreation(s) ==
    \/ sub[s].pc = "create_customer"
    \/ \E i \in 1..Len(sub[s].calls) : sub[s].calls[i].op = "createCustomer"
    \/ HasMatched(s) /\ sub[s].pc = "done" /\ sub[s].result[1].error \in FaultTexts

\* C4: when the identity searches of a submission are over and neither
\* yielded a customer (no match in the directory, token absent, or lookup
\* failed), find_matching_customer has returned None with confidence 0.0, no
\* customer_id and should_create_new true, and create_lead went on to
\* customer creation.
C4_NoCustomersMeansNone ==
    \A s \in SubIds :
        (/\ SearchesOver(s)
         /\ sub[s].phone_matches = <<>>
         /\ sub[s].email_matches = <<>>) =>
            /\ HasMatched(s)
            /\ sub[s].match[1].match_type = "none"
            /\ sub[s].match[1].confidence = 0
            /\ sub[s].match[1].customer_id = NoId
            /\ sub[s].match[1].should_create_new
            /\ ReachedCustomerCreation(s)

\* A lookup that failed and blocked the request: the search met a 429 whose
\* Retry-After is not an integer, find_matching_customer never returned, and
\* create_lead ended with the text of the fault and without any customer.
C4_LookupFaultBlocks ==
    \E s \in SubIds :
        /\ sub[s].pc = "done"
        /\ ~HasMatched(s)
        /\ sub[s].calls = <<>>
        /\ sub[s].phone_matches = <<>> /\ sub[s].email_matches = <<>>
        /\ ~sub[s].result[1].success
        /\ sub[s].result[1].error \in FaultTexts
        /\ sub[s].result[1].customer_id = NoId

\* C5: every result of find_matching_customer of type Exact has confidence
\* 1.0 and should_create_new false.
C5_ExactIsCertain ==
    \A s \in SubIds :
        (HasMatched(s) /\ sub[s].match[1].match_type = "exact") =>
            /\ sub[s].match[1].confidence = One
            /\ ~sub[s].match[1].should_create_new

\* An exact match chosen among two shared customers.
C5_Witness ==
    \E s \in SubIds :
        /\ HasMatched(s)
        /\ SharedIds(s) = {"C1", "C2"}
        /\ sub[s].match[1].match_type = "exact"
        /\ sub[s].match[1].confidence = One
        /\ sub[s].customer_id = sub[s].match[1].customer_id

\* C6: every result of find_matching_customer of type None has no
\* customer_id and should_create_new true.
C6_NoneCreatesNew ==
    \A s \in SubIds :
        (HasMatched(s) /\ sub[s].match[1].match_type = "none") =>
            /\ sub[s].match[1].customer_id = NoId
            /\ sub[s].match[1].should_create_new

\* Phone and email were both searched, both searches returned nothing.
C6_Witness ==
    \E s \in SubIds :
        /\ HasMatched(s)
        /\ Truthy(sub[s].phone) /\ Truthy(sub[s].email)
        /\ Len(sub[s].calls) >= 2
        /\ sub[s].match[1].match_type = "none"
        /\ sub[s].match[1].customer_id = NoId
        /\ sub[s].pc = "create_customer"

\* C7: the confidence of every result of find_matching_customer lies in
\* [0, 1], for every submission and every pair of search results.
C7_ConfidenceInUnitInterval ==
    \A s \in SubIds :
        HasMatched(s) =>
            /\ sub[s].match[1].confidence >= 0
            /\ sub[s].match[1].confidence <= One

\* A partial match whose candidate agrees with the submission on phone,
\* email and name at once: the three weights add up to exactly 1.0.
C7_Witness ==
    \E s \in SubIds :
        /\ HasMatched(s)
        /\ sub[s].match[1].match_type = "partial"
        /\ _customer_has_phone(sub[s].match[1].customer_data[1], sub[s].phone)
        /\ _customer_has_email(sub[s].match[1].customer_data[1], sub[s].email)
        /\ Lower(sub[s].name) = Lower(CustomerName(sub[s].match[1].customer_data[1]))
        /\ sub[s].match[1].confidence = One

\* create_lead has returned for submission s.
HasResult(s) == sub[s].result # <<>>

\* The last call of the directory that returned to submission s.
LastCall(s) == sub[s].calls[Len(sub[s].calls)]

\* Operation op returned to submission s without an id.
ReturnedNoId(s, op) ==
    \E i \in 1..Len(sub[s].calls) :
        sub[s].calls[i].op = op /\ sub[s].calls[i].returned = {}

\* C8: when should_create_new is true and createCustomer returned no id,
\* create_lead is over with success false and the customer-creation error,
\* createCustomer is the last call of the submission: neither createLead nor
\* any other call is issued after it.
C8_NoLeadWithoutCustomer ==
    \A s \in SubIds :
        ReturnedNoId(s, "createCustomer") =>
            /\ sub[s].match[1].should_create_new
            /\ sub[s].pc = "done"
            /\ HasResult(s)
            /\ ~sub[s].result[1].success
            /\ sub[s].result[1].error = FailedCustomer
            /\ sub[s].result[1].job_id = NoId
            /\ LastCall(s).op = "createCustomer"
            /\ \A i \in 1..Len(sub[s].calls) :
                   sub[s].calls[i].op \notin {"createLead", "addCustomerAddress",
                                              "getCustomerAddresses", "getAddressById"}

\* A possible duplicate for which the directory refused to create a customer.
C8_Witness ==
    \E s \in SubIds :
        /\ HasMatched(s)
        /\ sub[s].match[1].match_type = "partial"
        /\ sub[s].match[1].should_create_new
        /\ ReturnedNoId(s, "createCustomer")
        /\ sub[s].pc = "done"
        /\ sub[s].result[1].error = FailedCustomer

\* C9: when createLead returned no id, the result has success false, the
\* lead-creation error, no lead id, and the customer id resolved earlier in
\* the submission: the one createCustomer returned when a customer was
\* created, the one of the match otherwise.
C9_FailedLeadKeepsCustomer ==
    \A s \in SubIds :
        ReturnedNoId(s, "createLead") =>
            /\ HasResult(s)
            /\ ~sub[s].result[1].success
            /\ sub[s].result[1].error = FailedLead
            /\ sub[s].result[1].job_id = NoId
            /\ sub[s].result[1].customer_id # NoId
            /\ IF sub[s].match[1].should_create_new
               THEN \E i \in 1..Len(sub[s].calls) :
                       /\ sub[s].calls[i].op = "createCustomer"
                       /\ sub[s].calls[i].returned = {sub[s].result[1].customer_id}
               ELSE sub[s].result[1].customer_id = sub[s].match[1].customer_id

\* A customer was created and the lead then failed: the new id is reported.
C9_Witness ==
    \E s \in SubIds :
        /\ ReturnedNoId(s, "createLead")
        /\ sub[s].match[1].should_create_new
        /\ sub[s].result[1].customer_id \in NewCustomerIds
        /\ ~sub[s].result[1].success
        /\ sub[s].result[1].error = FailedLead

\* C10: every result with success true carries a customer id, the lead id
\* that createLead returned, no error, a message that names the match type
\* and exactly the warnings of the MatchResult; a result with success false
\* carries no lead id.
C10_SuccessResult ==
    \A s \in SubIds :
        HasResult(s) =>
            LET r == sub[s].result[1]
            IN  IF r.success
                THEN /\ r.customer_id # NoId
                     /\ r.job_id # NoId
                     /\ LastCall(s).op = "createLead"
                     /\ LastCall(s).returned = {r.job_id}
                     /\ r.error = NoId
                     /\ \E i \in 1..Len(r.message) :
                            r.message[i] = sub[s].match[1].match_type
                     /\ r.warnings = sub[s].match[1].warnings
                ELSE r.job_id = NoId

\* A lead created for a possible duplicate: the result carries the new
\* customer, the lead id of the directory and both warnings of the match.
C10_Witness ==
    \E s \in SubIds :
        /\ HasResult(s)
        /\ sub[s].result[1].success
        /\ sub[s].result[1].job_id = "L2"
        /\ sub[s].result[1].customer_id \in NewCustomerIds
        /\ Len(sub[s].result[1].warnings) = 2
        /\ sub[s].match[1].match_type = "partial"

\* C11: whatever a call of the directory meets (an HTTP error status, a
\* network error, rate limiting, a malformed header), the client method
\* returns its typed empty value and nothing is raised into create_lead: a
\* result is a success, a customer-creation failure or a lead-creation
\* failure, never the text of a fault raised inside a client method.
C11_ClientNeverRaises ==
    \A s \in SubIds :
        HasResult(s) => sub[s].result[1].error \in {NoId, FailedCustomer, FailedLead}

\* The customer was created, then create_lead of the client met a 429 whose
\* Retry-After is no integer: the ValueError left the client and ended the
\* submission with its text.
C11_FaultEscapesCreateLead ==
    \E s \in SubIds :
        /\ HasResult(s)
        /\ sub[s].result[1].error \in FaultTexts
        /\ Len(sub[s].calls) >= 1
        /\ LastCall(s).op = "createCustomer"
        /\ LastCall(s).returned # {}

\* ---------------------------------------------- address reconciliation alone

\* The proposed addresses should_create_new_address is applied to: none, one
\* that agrees with DA1 on street, state and zip, DA1 itself, one that agrees
\* with DA1 on state and zip only, a street alone, a city and a zip.
ProposedAddresses ==
    {NoAddress,
     [street |-> S1, city |-> None, state |-> CA, zip |-> Z1],
     [street |-> S1, city |-> City1, state |-> CA, zip |-> Z1],
     [street |-> None, city |-> None, state |-> CA, zip |-> Z1],
     [street |-> S2, city |-> None, state |-> CA, zip |-> None],
     [street |-> None, city |-> City1, state |-> None, zip |-> Z2]}

\* customer.get("addresses", []) of the matched customer.
KnownAddressLists == SeqsUpTo(DirAddresses, MaxAddresses)

\* The frame of one call of should_create_new_address.
Reconciling(addresses, new_address) ==
    [fn |-> "should_create_new_address", pc |-> "called",
     customer |-> [addresses |-> addresses], new_address |-> new_address,
     returned |-> <<>>]

ReconcileInit ==
    /\ pending = {}
    /\ \E known \in [SubIds -> KnownAddressLists], proposed \in [SubIds -> ProposedAddresses] :
            sub = [s \in SubIds |-> Reconciling(known[s], proposed[s])]

\* CustomerMatcher.should_create_new_address runs and returns.
ShouldCreateNewAddress(s) ==
    /\ sub[s].pc = "called"
    /\ sub' = [sub EXCEPT ![s].pc = "returned",
                          ![s].returned = <<should_create_new_address(sub[s].customer,
                                                                      sub[s].new_address)>>]
    /\ UNCHANGED pending

ReconcileNext == \E s \in SubIds : ShouldCreateNewAddress(s)

SpecReconcile == ReconcileInit /\ [][ReconcileNext]_vars

\* The greatest similarity of the proposed address with a known address.
BestSimilarity(known, proposed) ==
    LET scores == {compare_addresses(proposed, known[i]) : i \in 1..Len(known)}
    IN  CHOOSE best \in scores : \A score \in scores : score <= best

Reused(s) == HasMatched(s) /\ ~sub[s].match[1].should_create_new

\* Operation op has returned to submission s.
Called(s, op) == \E i \in 1..Len(sub[s].calls) : sub[s].calls[i].op = op

\* The positions of the addresses of a list that reach 0.8 with the proposed
\* address.
Reaching(addresses, proposed) ==
    {i \in 1..Len(addresses) :
        compare_addresses(existing_parsed(addresses[i]), proposed) >= (8 * One) \div 10}

C15_LeadAddress ==
    \A s \in SubIds :
        sub[s].lead_data # <<>> =>
            LET l == sub[s]
                lead == l.lead_data[1]
            IN  IF l.match[1].should_create_new
                THEN /\ lead.address_id = NoId
                     /\ lead.address = <<>> <=> ~AnyField(l.parsed_address)
                     /\ lead.address # <<>> =>
                            /\ lead.address[1].street = Opt(l.parsed_address.street)
                            /\ lead.address[1].city = Opt(l.parsed_address.city)
                            /\ lead.address[1].zip = Opt(l.parsed_address.zip)
                ELSE /\ l.new_address_id # NoId =>
                            /\ lead.address_id = l.new_address_id
                            /\ \E i \in 1..Len(l.calls) :
                                   /\ l.calls[i].op = "addCustomerAddress"
                                   /\ l.calls[i].returned = {l.new_address_id}
                     /\ lead.address # <<>> =>
                            /\ lead.address_id # NoId
                            /\ \E i \in 1..Len(l.calls) :
                                   /\ l.calls[i].op = "getAddressById"
                                   /\ l.calls[i].address_id = lead.address_id
                                   /\ l.calls[i].returned # {}
                     /\ lead.address_id = NoId => lead.address = <<>>
                     /\ lead.address_id # NoId => Called(s, "getAddressById")

\* A reused customer got a new address, get_address_by_id returned it, and
\* the lead payload carries its id and the address inline.
C15_Witness ==
    \E s \in SubIds :
        /\ Reused(s)
        /\ sub[s].lead_data # <<>>
        /\ sub[s].new_address_id \in NewAddressIds
        /\ sub[s].lead_data[1].address_id = sub[s].new_address_id
        /\ sub[s].lead_data[1].address # <<>>

\* ------------------------------------------------------ the order of calls

Writes == {"createCustomer", "addCustomerAddress", "createLead"}

\* A write of submission s is under way or has returned.
WriteIssued(s) ==
    \/ sub[s].pc \in {"create_customer", "add_address", "create_lead"}
    \/ \E op \in Writes : Called(s, op)

\* The ids the calls of submission s before position n returned.
ReturnedBefore(s, n) ==
    UNION {sub[s].calls[i].returned : i \in 1..(n - 1)}

\* The position in the log of submission s at which createLead is or will be.
LeadPosition(s) ==
    IF Called(s, "createLead") THEN Len(sub[s].calls) ELSE Len(sub[s].calls) + 1

\* C16: within a submission, a write is issued only after find_matching_customer
\* is over with a search returned for every token the form gave, no search
\* returns after a write, createCustomer and addCustomerAddress return before
\* createLead is issued, and the customer id and address id of the lead
\* payload are ids that earlier calls of the submission returned.
C16_CallOrder ==
    \A s \in SubIds :
        LET l == sub[s]
            searches == {i \in 1..Len(l.calls) : l.calls[i].op = "searchCustomers"}
        IN  /\ WriteIssued(s) =>
                   /\ HasMatched(s)
                   /\ Cardinality(searches) =
                          (IF Truthy(l.phone) THEN 1 ELSE 0) + (IF Truthy(l.email) THEN 1 ELSE 0)
            /\ \A i, j \in 1..Len(l.calls) :
                   i < j => /\ ~(l.calls[i].op \in Writes /\ l.calls[j].op = "searchCustomers")
                            /\ l.calls[i].op # "createLead"
            /\ l.lead_data # <<>> =>
                   /\ l.match[1].should_create_new => Called(s, "createCustomer")
                   /\ l.lead_data[1].customer_id \in ReturnedBefore(s, LeadPosition(s))
                   /\ \/ l.lead_data[1].address_id = NoId
                      \/ l.lead_data[1].address_id \in ReturnedBefore(s, LeadPosition(s))

\* Both searches returned, then createCustomer returned an id, and createLead
\* has been posted with that id.
C16_Witness ==
    \E s \in SubIds :
        /\ Len(sub[s].calls) = 4
        /\ sub[s].calls[1].op = "searchCustomers"
        /\ sub[s].calls[2].op = "searchCustomers"
        /\ sub[s].calls[3].op = "createCustomer"
        /\ sub[s].calls[4].op = "createLead"
        /\ sub[s].calls[3].returned = {sub[s].calls[4].customer_id}

\* ------------------------------------------------------- writes at most once

\* The position of create_lead at which it calls a write of the directory.
PcOf(op) ==
    CASE op = "createCustomer" -> "create_customer"
      [] op = "addCustomerAddress" -> "add_address"
      [] op = "createLead" -> "create_lead"

\* How often operation op has returned to submission s.
TimesReturned(s, op) ==
    Cardinality({i \in 1..Len(sub[s].calls) : sub[s].calls[i].op = op})

\* C17: in one run of create_lead each write of the directory is invoked at
\* most once: an operation that has returned, with an id or without, is not
\* under way again, and createCustomer and addCustomerAddress are not both
\* invoked for a submission.
C17_WritesAtMostOnce ==
    \A s \in SubIds :
        /\ \A op \in Writes :
               /\ TimesReturned(s, op) <= 1
               /\ sub[s].pc = PcOf(op) => TimesReturned(s, op) = 0
        /\ (sub[s].pc = "create_customer" \/ Called(s, "createCustomer")) =>
               ~(sub[s].pc = "add_address" \/ Called(s, "addCustomerAddress"))

\* addCustomerAddress returned nothing, create_lead went on, and the lead was
\* created: three calls of a reused customer's submission after its search.
C17_Witness ==
    \E s \in SubIds :
        /\ HasResult(s) /\ sub[s].result[1].success
        /\ ReturnedNoId(s, "addCustomerAddress")
        /\ TimesReturned(s, "addCustomerAddress") = 1
        /\ TimesReturned(s, "createLead") = 1

\* ------------------------------------------------------ normalize_phone alone

\* The most digits of a phone normalize_phone is applied to.
MaxPhoneDigits == 12

DigitSeq == <<"0", "1", "2", "3", "4", "5", "6", "7", "8", "9">>

\* n digits, the first one given, the i-th one i modulo ten.
PhoneDigits(first, n) == [i \in 1..n |-> IF i = 1 THEN first ELSE DigitSeq[(i % 10) + 1]]

\* The digits as a form gives them: "(ddd) ddd-dddd..." from four digits on.
Punctuated(d) ==
    IF Len(d) < 4 THEN <<"(">> \o d \o <<")">>
    ELSE IF Len(d) < 7 THEN <<"(">> \o SubSeq(d, 1, 3) \o <<")", " ">> \o SubSeq(d, 4, Len(d))
    ELSE <<"(">> \o SubSeq(d, 1, 3) \o <<")", " ">> \o SubSeq(d, 4, 6) \o <<"-">>
            \o SubSeq(d, 7, Len(d))

\* The phones normalize_phone is applied to: None, and 0 to MaxPhoneDigits
\* digits that start with 1 or with 5, bare or punctuated.
PhoneStrings ==
    {None}
        \cup {PhoneDigits(first, n) : first \in {"1", "5"}, n \in 0..MaxPhoneDigits}
        \cup {Punctuated(PhoneDigits(first, n)) : first \in {"1", "5"}, n \in 0..MaxPhoneDigits}

\* The frame of one call of normalize_phone.
Normalizing(phone) == [fn |-> "normalize_phone", pc |-> "called", phone |-> phone, returned |-> <<>>]

PhoneInit ==
    /\ pending = {}
    /\ \E phone \in [SubIds -> PhoneStrings] : sub = [s \in SubIds |-> Normalizing(phone[s])]

\* utils.normalize_phone runs with the configured area code and returns.
NormalizePhone(s) ==
    /\ sub[s].pc = "called"
    /\ sub' = [sub EXCEPT ![s].pc = "returned",
                          ![s].returned = <<normalize_phone(sub[s].phone, DEFAULT_AREA_CODE)>>]
    /\ UNCHANGED pending

PhoneNext == \E s \in SubIds : NormalizePhone(s)

SpecPhone == PhoneInit /\ [][PhoneNext]_vars

\* The digits of a raw phone, in their order.
DigitsOf(phone) == IF phone = None THEN <<>> ELSE SelectSeq(phone, LAMBDA c : c \in Digits)

\* C19: with d the digits of the input, normalize_phone returns "+1" d for
\* ten digits, "+" d for eleven digits of which the first is 1, "+1", the
\* default area code and d for seven digits, "+1" and the last ten digits of d
\* for more than eleven, and None for every other count: eleven digits that
\* do not start with 1, and an empty input.
C19_NormalizePhone ==
    \A s \in SubIds :
        sub[s].pc = "returned" =>
            LET d == DigitsOf(sub[s].phone)
                n == Len(d)
                out == sub[s].returned[1]
            IN  /\ n = 10 => out = <<"+", "1">> \o d
                /\ n = 11 /\ d[1] = "1" => out = <<"+">> \o d
                /\ n = 7 => out = <<"+", "1", "4", "1", "5">> \o d
                /\ n > 11 => out = <<"+", "1">> \o [i \in 1..10 |-> d[n - 10 + i]]
                /\ n \notin {7, 10} /\ n < 12 /\ ~(n = 11 /\ d[1] = "1") => out = None

\* A punctuated phone of twelve digits was cut to its last ten, and eleven
\* digits that start with 5 were refused.
C19_Witness ==
    \E s, t \in SubIds :
        /\ sub[s].pc = "returned" /\ sub[t].pc = "returned"
        /\ Len(DigitsOf(sub[s].phone)) = 12 /\ Len(sub[s].phone) > 12
        /\ Len(sub[s].returned[1]) = 12
        /\ Len(DigitsOf(sub[t].phone)) = 11
        /\ sub[t].returned[1] = None

\* ----------------------------------------------- a phone that is no number

\* create_lead has begun for submission s with a phone that normalize_phone
\* refused.
NoPhone(s) == sub[s].pc # "idle" /\ sub[s].phone = None

\* C20: a phone that cannot be normalized does not end create_lead.  No
\* phone search is made: the only search is the one for the email, when
\* there is one, and matching uses its result alone; a form without an email
\* goes straight to customer creation.  Once matching is over, create_lead
\* is at a call that creates or fetches for the lead, or has ended with the
\* outcome of such a call; and the customer record it posts has no phone.
C20_UnusablePhone ==
    \A s \in SubIds :
        NoPhone(s) =>
            LET l == sub[s]
                searches == {i \in 1..Len(l.calls) : l.calls[i].op = "searchCustomers"}
            IN  /\ l.pc # "search_phone"
                /\ l.phone_matches = <<>>
                /\ Cardinality(searches) <= (IF Truthy(l.email) THEN 1 ELSE 0)
                /\ l.calls = <<>> /\ l.pc # "done" =>
                       l.pc = (IF Truthy(l.email) THEN "search_email" ELSE "create_customer")
                /\ HasMatched(s) =>
                       /\ l.match[1] = find_matching_customer(<<>>, l.email_matches, None,
                                                              l.email, l.name, l.parsed_address,
                                                              l.is_existing_customer)
                       /\ l.pc \in {"create_customer", "add_address", "get_addresses",
                                     "get_address", "create_lead", "done"}
                /\ \A i \in 1..Len(l.calls) :
                       l.calls[i].op = "createCustomer" =>
                           l.calls[i].posted[1].mobile_number = None

\* A submission whose phone was refused ended with a lead for a customer that
\* was created without a phone.
C20_Witness ==
    \E s \in SubIds :
        /\ NoPhone(s)
        /\ HasResult(s) /\ sub[s].result[1].success
        /\ Called(s, "createCustomer")
        /\ sub[s].calls[Len(sub[s].calls) - 1].posted[1].mobile_number = None

\* ------------------------------------------------ create_lead invoked twice

\* One HTTP attempt of the call submission s is at.
Call(s) ==
    \/ SearchPhone(s)
    \/ SearchEmail(s)
    \/ CreateCustomer(s)
    \/ AddCustomerAddress(s)
    \/ GetCustomerAddresses(s)
    \/ GetAddressById(s)
    \/ CreateLead(s)

\* What create_lead took from the form_data of a submission, lines 171-212.
Inputs(l) ==
    <<l.phone, l.email, l.name, l.first_name, l.last_name, l.parsed_address,
      l.is_existing_customer>>

\* create_lead ended for submission s in its `except Exception`.
Faulted(s) == HasResult(s) /\ sub[s].result[1].error \in FaultTexts

\* The request of a logged call: the operation and what it was given.
Request(call) == <<call.op, call.customer_id, call.address_id, call.posted>>

\* The directory answers submission 2 as it answered submission 1: a call
\* of submission 2 that repeats the request submission 1 made at the same
\* position got the same ids and the same records, and a call raises for
\* submission 2 exactly where one raised for submission 1 (the text it raises
\* with is left open).
Replays ==
    LET l1 == sub[1]
        l2 == sub[2]
        n == Len(l2.calls)
        searched == Cardinality({i \in 1..n : l2.calls[i].op = "searchCustomers"})
    IN  /\ \A i \in 1..n :
               i <= Len(l1.calls) /\ Request(l2.calls[i]) = Request(l1.calls[i]) =>
                   l2.calls[i].returned = l1.calls[i].returned
        /\ searched >= 1 =>
               IF Truthy(l2.phone) THEN l2.phone_matches = l1.phone_matches
               ELSE l2.email_matches = l1.email_matches
        /\ searched = 2 => l2.email_matches = l1.email_matches
        /\ Called(2, "getCustomerAddresses") => l2.customer_addresses = l1.customer_addresses
        /\ Faulted(2) => Faulted(1) /\ Len(l1.calls) = n
        /\ Faulted(1) => n <= Len(l1.calls)

\* The first submission has a phone that normalizes, an email and a name; the
\* second one is the same form, submitted once the first has arrived.
Submit(s) ==
    /\ Start(s)
    /\ IF s = 1 THEN Truthy(sub'[1].phone) /\ Truthy(sub'[1].email) /\ Truthy(sub'[1].name)
       ELSE sub[1].pc # "idle" /\ Inputs(sub'[s]) = Inputs(sub[1])

\* Submission 1 makes its next call when submission 2 has got as far;
\* submission 2 follows, one call behind or after the end of submission 1.
Turn(s) ==
    IF s = 1 THEN sub[2].pc # "idle" /\ Len(sub[1].calls) = Len(sub[2].calls)
    ELSE Len(sub[2].calls) < Len(sub[1].calls) \/ sub[1].pc = "done"

\* One HTTP attempt of a call of a submission; the directory answers the
\* second submission as it answered the first.
Step(s) ==
    /\ Turn(s)
    /\ Call(s)
    /\ s # 1 => Replays'

ReplayInit ==
    /\ sub = [s \in SubIds |-> Idle]
    /\ pending = SubIds

ReplayNext == \E s \in SubIds : Submit(s) \/ Step(s)

SpecReplay == ReplayInit /\ [][ReplayNext]_vars

\* A LeadCreationResult without the text of the fault it may carry.
Outcome(s) ==
    [sub[s].result[1] EXCEPT !.error = IF Faulted(s) THEN "fault" ELSE @]

\* C12: the failure result of a fault caught at the top of create_lead
\* carries a message that does not depend on the fault: two submissions of
\* the same form that got the same answers and ended in a fault at the same
\* call, and differ at most in the text of the exception, have the same error.
C12_GenericFaultMessage ==
    Faulted(1) /\ Faulted(2) => sub[1].result[1].error = sub[2].result[1].error

\* Both submissions created the same customer and ended in a fault of
\* createLead, and their results differ in the error.
C12_FaultTextInError ==
    /\ Faulted(1) /\ Faulted(2)
    /\ sub[1].calls = sub[2].calls
    /\ Called(1, "createCustomer")
    /\ Outcome(1) = Outcome(2)
    /\ sub[1].result[1] # sub[2].result[1]

HasAddress(s) == sub[s].pc # "idle" /\ AnyField(sub[s].parsed_address)

\* C21: an address that was resolved without a state carries the configured
\* default state wherever it is used: in the address given to matching, in
\* the customer record posted by _create_customer, in the address posted by
\* _add_address_to_customer and in the address attached to the lead of a new
\* customer.  No address of a submission is without a state.
C21_StateDefaulted ==
    \A s \in SubIds :
        HasAddress(s) =>
            LET l == sub[s]
            IN  /\ Truthy(l.parsed_address.state)
                /\ \A i \in 1..Len(l.calls) :
                       /\ l.calls[i].op = "createCustomer" =>
                              Truthy(l.calls[i].posted[1].addresses[1].state)
                       /\ l.calls[i].op = "addCustomerAddress" =>
                              Truthy(l.calls[i].posted[1].state)
                /\ l.lead_data # <<>> /\ l.match[1].should_create_new =>
                       Truthy(l.lead_data[1].address[1].state)

\* A customer was created with an address that has a street and no state,
\* and the lead for that customer carries the default state.
C21_CustomerWithoutState ==
    \E s \in SubIds :
        /\ HasAddress(s)
        /\ sub[s].lead_data # <<>>
        /\ Called(s, "createCustomer")
        /\ \E i \in 1..Len(sub[s].calls) :
               /\ sub[s].calls[i].op = "createCustomer"
               /\ sub[s].calls[i].posted[1].addresses[1].state = None
               /\ Truthy(sub[s].calls[i].posted[1].addresses[1].street)
        /\ sub[s].lead_data[1].address[1].state = DEFAULT_STATE

\* ------------------------------------------------- compare_addresses alone

\* The frame of one call of compare_addresses.
Comparing(addr1, addr2) ==
    [fn |-> "compare_addresses", pc |-> "called", addr1 |-> addr1, addr2 |-> addr2,
     returned |-> <<>>]

CompareInit ==
    /\ pending = {}
    /\ \E addr1 \in [SubIds -> ProposedAddresses], addr2 \in [SubIds -> ProposedAddresses] :
            sub = [s \in SubIds |-> Comparing(addr1[s], addr2[s])]

\* utils.compare_addresses runs and returns.
CompareAddresses(s) ==
    /\ sub[s].pc = "called"
    /\ sub' = [sub EXCEPT ![s].pc = "returned",
                          ![s].returned = <<compare_addresses(sub[s].addr1, sub[s].addr2)>>]
    /\ UNCHANGED pending

CompareNext == \E s \in SubIds : CompareAddresses(s)

SpecCompare == CompareInit /\ [][CompareNext]_vars

\* The fields that are non-empty on both sides.
PresentOnBoth(addr1, addr2) ==
    {f \in {"street", "city", "state", "zip"} :
        FieldVal(addr1, f) # <<>> /\ FieldVal(addr2, f) # <<>>}

RECURSIVE SumOver(_, _, _)
SumOver(fields, F(_), acc) ==
    IF fields = {} THEN acc
    ELSE LET f == CHOOSE x \in fields : TRUE
         IN  SumOver(fields \ {f}, F, acc + F(f))

\* C22: compare_addresses returns 0.0 when no field is present on both sides,
\* and otherwise the sum of fieldScore * weight divided by the sum of the
\* weights of the fields present on both sides only (up to the rounding of
\* the division), so that addresses agreeing on every field present on both
\* sides score 1.0.
C22_AverageOverPresentFields ==
    \A s \in SubIds :
        sub[s].pc = "returned" =>
            LET a == sub[s].addr1
                b == sub[s].addr2
                present == PresentOnBoth(a, b)
                Weighted(f) == ratio(FieldVal(a, f), FieldVal(b, f)) * weights(f)
                total == SumOver(present, Weighted, 0)
                weight == SumOver(present, weights, 0)
                score == sub[s].returned[1]
            IN  IF present = {} THEN score = 0
                ELSE /\ score - total \div weight <= QuotientExcess
                     /\ total \div weight - score <= QuotientExcess
                     /\ (\A f \in present : FieldVal(a, f) = FieldVal(b, f)) => score >= One

\* Two addresses that agree on street, state and zip, one of them without a
\* city, are compared and score below 1.0 and above 0.8.
C22_AgreeingBelowOne ==
    \E s \in SubIds :
        /\ sub[s].pc = "returned"
        /\ LET a == sub[s].addr1
               b == sub[s].addr2
               present == PresentOnBoth(a, b)
           IN  /\ present = {"street", "state", "zip"}
               /\ \A f \in present : FieldVal(a, f) = FieldVal(b, f)
               /\ sub[s].returned[1] < One
               /\ sub[s].returned[1] > (8 * One) \div 10

\* ------------------------------------------------ _select_best_match alone

\* The names _select_best_match is given: none, the name of K1, the first
\* name of K2.
SelectNames == {<<>>, <<"a", " ", "b">>, <<"B">>}

\* The candidate lists: one or two customers of the directory.
CandidateLists == SeqsUpTo(Directory, MaxResults) \ {<<>>}

\* The frame of one call of _select_best_match.
Selecting(candidates, name, address) ==
    [fn |-> "_select_best_match", pc |-> "called", candidates |-> candidates,
     name |-> name, address |-> address, returned |-> <<>>]

SelectInit ==
    /\ pending = {}
    /\ \E candidates \in [SubIds -> CandidateLists], name \in [SubIds -> SelectNames],
          address \in [SubIds -> ProposedAddresses] :
            sub = [s \in SubIds |-> Selecting(candidates[s], name[s], address[s])]

\* CustomerMatcher._select_best_match runs and returns.
SelectBestMatch(s) ==
    /\ sub[s].pc = "called"
    /\ sub' = [sub EXCEPT ![s].pc = "returned",
                          ![s].returned = <<_select_best_match(sub[s].candidates, sub[s].name,
                                                               sub[s].address)>>]
    /\ UNCHANGED pending

SelectNext == \E s \in SubIds : SelectBestMatch(s)

SpecSelect == SelectInit /\ [][SelectNext]_vars

\* 0.5 * name similarity (if a name is given) plus 0.5 * the greatest
\* address similarity over the candidate's addresses, added once.
ScoreOfBestAddress(candidate, name, address) ==
    LET candidate_name == CustomerName(candidate)
        name_score == IF Truthy(name) /\ candidate_name # <<>>
                      THEN name_similarity(name, candidate_name) \div 2
                      ELSE 0
    IN  IF candidate.addresses = <<>> THEN name_score
        ELSE name_score + BestSimilarity(candidate.addresses, address) \div 2

\* C23: with two or more candidates, the score of a candidate is 0.5 * name
\* similarity plus 0.5 * the greatest address similarity over its addresses,
\* added once, and the candidate returned has the highest such score.
C23_BestAddressCountsOnce ==
    \A s \in SubIds :
        sub[s].pc = "returned" /\ Len(sub[s].candidates) >= 2 =>
            LET l == sub[s]
            IN  \A i \in 1..Len(l.candidates) :
                    /\ CandidateScore(l.candidates[i], l.name, l.address)
                          = ScoreOfBestAddress(l.candidates[i], l.name, l.address)
                    /\ ScoreOfBestAddress(l.returned[1], l.name, l.address)
                          >= ScoreOfBestAddress(l.candidates[i], l.name, l.address)

\* The candidate returned has two addresses, and another candidate has a
\* known address more similar to the input address than any of them.
C23_MoreAddressesWin ==
    \E s \in SubIds :
        /\ sub[s].pc = "returned"
        /\ sub[s].name = <<>>
        /\ Len(sub[s].returned[1].addresses) = 2
        /\ \E i \in 1..Len(sub[s].candidates) :
               BestSimilarity(sub[s].candidates[i].addresses, sub[s].address)
                   > BestSimilarity(sub[s].returned[1].addresses, sub[s].address)

\* ------------------------------------------- the confidence of a partial match

\* The stored phone of a candidate, normalized: the mobile number, else the
\* home number.
StoredPhone(c) ==
    normalize_phone(IF Truthy(c.mobile_number) THEN c.mobile_number
                    ELSE IF Truthy(c.home_number) THEN c.home_number ELSE <<>>,
                    <<"4", "1", "5">>)

\* The stored email of a candidate, lower case and without surrounding space.
StoredEmail(c) == Strip(Lower(OrEmpty(c.email)))

\* C24: the confidence of every partial result is 0.4 if a phone was supplied
\* and equals the candidate's normalized stored phone, plus 0.4 if an email
\* was supplied and equals the stored email without regard to case and
\* surrounding space, plus 0.2 * the name similarity if a name was supplied;
\* the sum is not renormalized over the supplied signals.
C24_PartialConfidence ==
    \A s \in SubIds :
        HasMatched(s) /\ sub[s].match[1].match_type = "partial" =>
            LET l == sub[s]
                c == l.match[1].customer_data[1]
                by_phone == IF Truthy(l.phone) /\ Truthy(StoredPhone(c))
                               /\ StoredPhone(c) = l.phone
                            THEN (4 * One) \div 10 ELSE 0
                by_email == IF Truthy(l.email) /\ StoredEmail(c) # <<>>
                               /\ StoredEmail(c) = Strip(Lower(l.email))
                            THEN (4 * One) \div 10 ELSE 0
                by_name == IF Truthy(l.name)
                           THEN ratio(Lower(l.name), Lower(CustomerName(c))) \div 5
                           ELSE 0
            IN  l.match[1].confidence = by_phone + by_email + by_name

\* A partial match of a submission with a phone and neither email nor name,
\* the phone being the candidate's: the confidence is 0.4.
C24_Witness ==
    \E s \in SubIds :
        /\ HasMatched(s)
        /\ sub[s].match[1].match_type = "partial"
        /\ Truthy(sub[s].phone)
        /\ ~Truthy(sub[s].email)
        /\ ~Truthy(sub[s].name)
        /\ StoredPhone(sub[s].match[1].customer_data[1]) = sub[s].phone
        /\ sub[s].match[1].confidence = (4 * One) \div 10

\* ------------------------------------------------------- _request alone

\* The frame of one call of HCPClient._request: the loop variable, the
\* answers the attempts made so far have met, and how the call ended.
Requesting ==
    [fn |-> "_request", pc |-> "called", attempt |-> 0, met |-> <<>>, raised |-> "",
     returned |-> <<>>]

RequestInit ==
    /\ pending = {}
    /\ sub = [s \in SubIds |-> Requesting]

\* One iteration of the loop of _request: the HTTP attempt and what follows.
Attempt(s) ==
    /\ sub[s].pc = "called"
    /\ UNCHANGED pending
    /\ \E kind \in AttemptKinds :
          LET l == [sub[s] EXCEPT !.met = Append(@, kind)]
              step == _request(l.attempt, kind)
          IN  sub' = [sub EXCEPT ![s] =
                        CASE step = "retry" -> [l EXCEPT !.attempt = @ + 1]
                          [] step = "return" ->
                                [l EXCEPT !.pc = "returned", !.returned = <<Len(l.met)>>]
                          [] OTHER -> [l EXCEPT !.pc = "raised", !.raised = step]]

RequestNext == \E s \in SubIds : Attempt(s)

SpecRequest == RequestInit /\ [][RequestNext]_vars

\* C25: a call of _request makes at most retry_count HTTP attempts, a 429
\* counting as one; it returns the body of the first successful attempt, and
\* a call that does not return raises HCPAPIError.
C25_RequestEnds ==
    \A s \in SubIds :
        LET l == sub[s]
        IN  /\ Len(l.met) <= retry_count
            /\ l.pc = "called" => Len(l.met) < retry_count
            /\ l.pc = "returned" =>
                   /\ l.met[Len(l.met)] = "ok"
                   /\ l.returned = <<Len(l.met)>>
                   /\ \A i \in 1..(Len(l.met) - 1) : l.met[i] # "ok"
            /\ l.pc = "raised" => l.raised = "HCPAPIError"

\* A call was rate limited twice and ended, at its third attempt, with an
\* exception that is not HCPAPIError.
C25_RaisesValueError ==
    \E s \in SubIds :
        /\ sub[s].pc = "raised"
        /\ sub[s].raised = "ValueError"
        /\ sub[s].met = <<"rate_limited", "rate_limited", "bad_retry_after">>

\* ------------------------------------------------- the same address again

\* The proposed address and a known one agree on every field that is present
\* on both sides, and some field is.
SameWherePresent(proposed, known) ==
    /\ PresentOnBoth(proposed, known) # {}
    /\ \A f \in PresentOnBoth(proposed, known) : FieldVal(proposed, f) = FieldVal(known, f)

\* C26: for a reused customer, a proposed address that agrees with a known
\* address of the customer on every field present on both sides is the same
\* address: add_customer_address is not called for it.
C26_SameAddressNotAdded ==
    \A s \in SubIds :
        Reused(s) =>
            LET l == sub[s]
                known == l.match[1].customer_data[1].addresses
            IN  (\E i \in 1..Len(known) : SameWherePresent(l.parsed_address, known[i])) =>
                    /\ l.pc # "add_address"
                    /\ ~Called(s, "addCustomerAddress")

\* The proposed address has a street alone, the reused customer has a known
\* address of that street, and an address was created for the customer.
C26_SameStreetAddedAgain ==
    \E s \in SubIds :
        /\ Reused(s)
        /\ sub[s].parsed_address.street = S2
        /\ \E i \in 1..Len(sub[s].match[1].customer_data[1].addresses) :
               /\ sub[s].match[1].customer_data[1].addresses[i].street = S2
               /\ SameWherePresent(sub[s].parsed_address,
                                   sub[s].match[1].customer_data[1].addresses[i])
        /\ Called(s, "addCustomerAddress")
        /\ sub[s].lead_data # <<>>

\* ------------------------------------------------ the customer of the lead

CreateOperations == {"create_customer", "add_customer_address", "create_lead"}

\* The ids a create operation can find in the body of a 2xx answer.
CreatedIds(fn) ==
    CASE fn = "create_customer" -> CreateCustomerBodies
      [] fn = "add_customer_address" -> NewAddressIds \cup {NoId}
      [] fn = "create_lead" -> CreateLeadBodies

\* The frame of one invocation of a create operation: the loop variable of
\* _request, and the number of records the directory has made for the POSTs
\* of this invocation.
Creating(fn) ==
    [fn |-> fn, pc |-> "called", attempt |-> 0, records |-> 0, raised |-> "",
     returned |-> <<>>]

CreateInit ==
    /\ pending = {}
    /\ \E fn \in [SubIds -> CreateOperations] : sub = [s \in SubIds |-> Creating(fn[s])]

\* One HTTP attempt of the POST.  The directory makes the record before it
\* answers 2xx; a request that ends in a timeout (timeout=30), a dropped
\* connection or an HTTP error status may or may not have been applied; a
\* 429 is refused before it is applied.  The client then returns the id,
\* retries, returns None on HCPAPIError, or lets the ValueError through.
Post(s) ==
    /\ sub[s].pc = "called"
    /\ sub[s].fn \in CreateOperations
    /\ UNCHANGED pending
    /\ \E kind \in AttemptKinds, applied \in BOOLEAN, id \in CreatedIds(sub[s].fn) :
          /\ kind = "ok" => applied
          /\ kind \in {"rate_limited", "bad_retry_after"} => ~applied
          /\ LET l == [sub[s] EXCEPT !.records = IF applied THEN @ + 1 ELSE @]
                 step == _request(l.attempt, kind)
             IN  sub' = [sub EXCEPT ![s] =
                           CASE step = "retry" -> [l EXCEPT !.attempt = @ + 1]
                             [] step = "return" ->
                                   [l EXCEPT !.pc = "returned", !.returned = <<id>>]
                             [] step = "HCPAPIError" ->
                                   [l EXCEPT !.pc = "returned", !.returned = <<NoId>>]
                             [] OTHER -> [l EXCEPT !.pc = "raised", !.raised = step]]

CreateNext == \E s \in SubIds : Post(s)

SpecCreate == CreateInit /\ [][CreateNext]_vars

\* C28: one invocation of create_customer, add_customer_address or
\* create_lead makes at most one record come into existence in the
\* directory, also when _request retries a POST the directory had applied.
C28_AtMostOneRecord ==
    \A s \in SubIds : sub[s].records <= 1

\* An invocation returned the id of a record after two POSTs that had been
\* applied and ended in an error: three records exist.
C28_RecordsOfRetries ==
    \E s \in SubIds :
        /\ sub[s].pc = "returned"
        /\ sub[s].attempt = retry_count - 1
        /\ sub[s].returned # <<NoId>>
        /\ sub[s].records = retry_count

\* ------------------------------------------- what a partial match matched

\* C29: the candidate of every Partial result has the supplied phone as its
\* stored phone or the supplied email as its stored email, so the
\* partial-match warning names a matched field and the confidence is at
\* least 0.4.
C29_PartialMatchedAField ==
    \A s \in SubIds :
        HasMatched(s) /\ sub[s].match[1].match_type = "partial" =>
            LET l == sub[s]
                c == l.match[1].customer_data[1]
            IN  /\ \/ Truthy(l.phone) /\ StoredPhone(c) = l.phone
                   \/ Truthy(l.email) /\ StoredEmail(c) # <<>>
                                      /\ StoredEmail(c) = Strip(Lower(l.email))
                /\ l.match[1].warnings[1].matched # <<>>
                /\ l.match[1].confidence >= (4 * One) \div 10

\* A customer that the email search returned and whose stored email is
\* another one was reused: the warning names no field, the confidence is
\* below 0.4, and the lead is created for that customer.
C29_ReusedOnNoField ==
    \E s \in SubIds :
        /\ Reused(s)
        /\ sub[s].match[1].match_type = "partial"
        /\ Truthy(sub[s].email)
        /\ StoredEmail(sub[s].match[1].customer_data[1]) # Strip(Lower(sub[s].email))
        /\ sub[s].match[1].warnings[1].matched = <<>>
        /\ sub[s].match[1].confidence < (4 * One) \div 10
        /\ Called(s, "createLead")

\* -------------------------------------------- two submissions at once

\* The forms of the two submissions: the first gives a phone, a street and a
\* zip and says "existing"; the second an email, a name and a combined
\* address and says "new".
ConcurrentForms(s) ==
    {f \in Forms :
        IF s = 1
        THEN /\ f.phone = <<"5", "5", "5", "-", "1", "2", "3", "4">>
             /\ f.email = <<>>
             /\ f.name = <<>> /\ f.first_name = <<>>
             /\ f.address = <<>> /\ f.street = S1
             /\ Extracted(f).is_existing_customer
        ELSE /\ f.phone = <<"1", "2">>
             /\ f.email # <<>>
             /\ f.name # <<>>
             /\ f.address = S2
             /\ ~Extracted(f).is_existing_customer}

\* A submission arrives at the shared LeadCreator while the other one may
\* be anywhere in its own create_lead.
Arrive(s) ==
    /\ s \in pending
    /\ sub[s].pc = "idle"
    /\ \E form_data \in ConcurrentForms(s) :
          sub' = [sub EXCEPT ![s] = BeginMatching(Extracted(form_data))]
    /\ pending' = pending \ {s}

ConcurrentInit ==
    /\ sub = [s \in SubIds |-> Idle]
    /\ pending = SubIds

\* The worker threads of the server run the two create_lead calls in any
\* interleaving of their calls of the directory.
ConcurrentNext == \E s \in SubIds : Arrive(s) \/ Call(s)

SpecConcurrent == ConcurrentInit /\ [][ConcurrentNext]_vars

\* What the calls of submission s with an operation of ops returned.
ReturnedTo(s, ops) ==
    UNION {sub[s].calls[i].returned : i \in {j \in 1..Len(sub[s].calls) : sub[s].calls[j].op \in ops}}

\* The customer ids submission s resolved or created itself.
OwnCustomers(s) ==
    (IF Reused(s) THEN {sub[s].match[1].customer_id} ELSE {}) \cup ReturnedTo(s, {"createCustomer"})

\* The address ids submission s resolved or created itself.
OwnAddresses(s) == ReturnedTo(s, {"addCustomerAddress", "getCustomerAddresses"})

====
